---- MODULE Spec2Model ----
(***************************************************************************)
(* Model of the quality-matching engine of src/api-manager.js (class       *)
(* APIManager): quality ranking, preference matching, grouping and         *)
(* best-match selection, the upgrade scanner and the auto-add runs.        *)
(*                                                                         *)
(* Text (titles, quality tokens, group keys) is a sequence of one-char     *)
(* strings, so that the regular expressions of the source are modelled by  *)
(* what they match.  A missing (undefined) field is the value Undef.       *)
(***************************************************************************)
EXTENDS Integers, Sequences, FiniteSets, TLC

VARIABLES
    pc,          \* position of the running operation
    args,        \* arguments of the operation under way
    ret,         \* value the operation returned
    sargs,       \* checkForQualityUpgrades: its preferences and contentType
    torrents,    \* checkForQualityUpgrades: filteredTorrents
    ti,          \* checkForQualityUpgrades: index of the held item in the loop
    better,      \* checkForQualityUpgrades: betterMatches of the held item
    mi,          \* checkForQualityUpgrades: index of the match being submitted
    scan,        \* checkForQualityUpgrades: its results object
    calls,       \* collaborator calls issued so far, in order
    cont,        \* where checkForQualityUpgrades returns to
    phase,       \* runAutoAddProcess*: the watchlist pass, "movies" or "shows"
    watch,       \* runAutoAddProcess*: data of the watchlist being processed
    wi,          \* runAutoAddProcess*: index of the watchlist item
    best,        \* runAutoAddProcess*: bestMatches of the watchlist item
    bi,          \* runAutoAddProcess*: index of the match being submitted
    results,     \* runAutoAddProcess*: its results object
    currentProxyIndex,  \* this.currentProxyIndex
    corsProxy,   \* this.corsProxy
    fetch        \* fetchWithFallback: the locals of each call under way

vars == <<pc, args, ret, sargs, torrents, ti, better, mi, scan, calls, cont,
          phase, watch, wi, best, bi, results, currentProxyIndex, corsProxy, fetch>>

scanVars == <<sargs, torrents, ti, better, mi, scan, cont>>
autoVars == <<phase, watch, wi, best, bi, results>>
fetchVars == <<currentProxyIndex, corsProxy, fetch>>

(***************************************************************************)
(* Bounds of the model.                                                    *)
(***************************************************************************)
MaxMatches == 2      \* longest list findAllMatchingContent returns
MaxHeld == 2         \* longest held-item snapshot
MaxWatch == 2        \* longest watchlist
MaxTokens == 3       \* most fragments in a title given to cleanTitle
MaxRetries == 3      \* largest maxRetries given to fetchWithFallback
MaxLines == 2        \* lines of a hash list

(***************************************************************************)
(* Text helpers.                                                           *)
(***************************************************************************)
Undef == <<"undefined">>
NoRet == <<"none">>

UpperCase == <<"A","B","C","D","E","F","G","H","I","J","K","L","M",
               "N","O","P","Q","R","S","T","U","V","W","X","Y","Z">>
LowerCase == <<"a","b","c","d","e","f","g","h","i","j","k","l","m",
               "n","o","p","q","r","s","t","u","v","w","x","y","z">>

LowerOf ==
    [c \in {UpperCase[i] : i \in 1..26} |->
        LowerCase[CHOOSE i \in 1..26 : UpperCase[i] = c]]

toLowerChar(c) == IF c \in DOMAIN LowerOf THEN LowerOf[c] ELSE c

toLowerCase(s) == [i \in 1..Len(s) |-> toLowerChar(s[i])]

IsDigit(c) == c \in {"0","1","2","3","4","5","6","7","8","9"}

\* One atom of a pattern against one character: "\\d" is the digit class,
\* any other atom a literal (compared case-insensitively under the i flag).
AtomMatch(a, c, ci) ==
    IF a = "\\d" THEN IsDigit(c)
    ELSE IF ci THEN toLowerChar(c) = toLowerChar(a)
    ELSE c = a

\* The fixed-length pattern pat matches s at position i.
MatchAt(s, i, pat, ci) ==
    /\ i + Len(pat) - 1 <= Len(s)
    /\ \A k \in 1..Len(pat) : AtomMatch(pat[k], s[i + k - 1], ci)

\* An alternation (alts, tried in order) matches s at position i.
AltMatchAt(s, i, alts, ci) == \E a \in 1..Len(alts) : MatchAt(s, i, alts[a], ci)

\* Length of the match of the alternation at i: the first alternative wins.
AltLenAt(s, i, alts, ci) ==
    Len(alts[CHOOSE a \in 1..Len(alts) :
                /\ MatchAt(s, i, alts[a], ci)
                /\ \A b \in 1..(a - 1) : ~MatchAt(s, i, alts[b], ci)])

\* regex.test(s)
Test(s, alts, ci) == \E i \in 1..Len(s) : AltMatchAt(s, i, alts, ci)

\* Position of the leftmost match (s.match(regex)); 0 when there is none.
FirstMatch(s, alts, ci) ==
    IF Test(s, alts, ci)
    THEN CHOOSE i \in 1..Len(s) :
            /\ AltMatchAt(s, i, alts, ci)
            /\ \A j \in 1..(i - 1) : ~AltMatchAt(s, j, alts, ci)
    ELSE 0

\* s.includes(sub)
Includes(s, sub) == \E i \in 1..Len(s) : MatchAt(s, i, sub, FALSE)

\* s.replace(/alts/g, ''), scanning from position i.
RECURSIVE ReplaceFrom(_, _, _, _)
ReplaceFrom(s, i, alts, ci) ==
    IF i > Len(s) THEN <<>>
    ELSE IF AltMatchAt(s, i, alts, ci)
         THEN ReplaceFrom(s, i + AltLenAt(s, i, alts, ci), alts, ci)
         ELSE <<s[i]>> \o ReplaceFrom(s, i + 1, alts, ci)

ReplaceAll(s, alts, ci) == ReplaceFrom(s, 1, alts, ci)

\* s.replace(/<open>.*?<close>/g, ''): a lazy bracketed group.
RECURSIVE StripGroupFrom(_, _, _, _)
StripGroupFrom(s, i, open, close) ==
    IF i > Len(s) THEN <<>>
    ELSE IF s[i] = open /\ \E j \in (i + 1)..Len(s) : s[j] = close
         THEN LET j == CHOOSE j \in (i + 1)..Len(s) :
                          /\ s[j] = close
                          /\ \A k \in (i + 1)..(j - 1) : s[k] # close
              IN  StripGroupFrom(s, j + 1, open, close)
         ELSE <<s[i]>> \o StripGroupFrom(s, i + 1, open, close)

StripGroup(s, open, close) == StripGroupFrom(s, 1, open, close)

RECURSIVE TrimStart(_)
TrimStart(s) ==
    IF s # <<>> /\ Head(s) = " " THEN TrimStart(Tail(s)) ELSE s

RECURSIVE TrimEnd(_)
TrimEnd(s) ==
    IF s # <<>> /\ s[Len(s)] = " " THEN TrimEnd(SubSeq(s, 1, Len(s) - 1)) ELSE s

Trim(s) == TrimEnd(TrimStart(s))

(***************************************************************************)
(* Metadata extractor: title cleaning.                                     *)
(***************************************************************************)
ResolutionRe == << <<"\\d","\\d","\\d","\\d","p">>, <<"\\d","\\d","\\d","\\d">> >>
SourceTagRe == << <<"b","l","u","r","a","y">>, <<"w","e","b","-","d","l">>,
                  <<"w","e","b","r","i","p">>, <<"h","d","r","i","p">>,
                  <<"b","r","r","i","p">> >>
CodecTagRe == << <<"x","2","6","4">>, <<"x","2","6","5">>, <<"h","e","v","c">> >>

cleanTitle(title) ==
    Trim(ReplaceAll(ReplaceAll(ReplaceAll(
            StripGroup(StripGroup(title, "[", "]"), "(", ")"),
            ResolutionRe, FALSE), SourceTagRe, TRUE), CodecTagRe, TRUE))

QualityRe == << <<"\\d","\\d","\\d","\\d","p">>, <<"\\d","\\d","\\d","p">>,
               <<"4","k">>, <<"u","h","d">> >>

extractQuality(title) ==
    LET qualityMatch == FirstMatch(title, QualityRe, TRUE)
    IN  IF qualityMatch # 0
        THEN SubSeq(title, qualityMatch,
                    qualityMatch + AltLenAt(title, qualityMatch, QualityRe, TRUE) - 1)
        ELSE <<"U","n","k","n","o","w","n">>

ContentTypeRe == << <<"s","\\d","\\d","e","\\d","\\d">>, <<"s","e","a","s","o","n">>,
                   <<"e","p","i","s","o","d","e">> >>

detectContentType(title) ==
    IF Test(title, ContentTypeRe, TRUE) THEN "tv" ELSE "movie"

\* title, quality and type of the metadata (the fields the scanner reads);
\* a filename that is not a string makes cleanTitle throw.
Throws(filename) == filename = Undef

extractMetadataFromFilename(filename) ==
    [title |-> cleanTitle(filename), quality |-> extractQuality(filename),
     type |-> detectContentType(filename)]

(***************************************************************************)
(* Quality ranker.                                                         *)
(***************************************************************************)
QUnknown == <<"U","n","k","n","o","w","n">>
Q480 == <<"4","8","0","p">>
Q576 == <<"5","7","6","p">>
Q720 == <<"7","2","0","p">>
Q1080 == <<"1","0","8","0","p">>
Q2160 == <<"2","1","6","0","p">>
Q4K == <<"4","K">>
QUHD == <<"U","H","D">>

\* The lookup with the tests for 1080p and 720p in the other order of rank.
getQualityRankSwapped(quality) ==
    IF quality = Undef \/ quality = <<>> \/ quality = QUnknown THEN -1
    ELSE LET normalized == toLowerCase(quality) IN
         IF Includes(normalized, <<"4","k">>) \/ Includes(normalized, <<"u","h","d">>)
         THEN 5
         ELSE IF Includes(normalized, Q2160) THEN 4
         ELSE IF Includes(normalized, Q720) THEN 3
         ELSE IF Includes(normalized, Q1080) THEN 2
         ELSE IF Includes(normalized, Q480) THEN 1
         ELSE 0

getQualityRank(quality) ==
    IF quality = Undef \/ quality = <<>> \/ quality = QUnknown THEN -1
    ELSE LET normalized == toLowerCase(quality) IN
         IF Includes(normalized, <<"4","k">>) \/ Includes(normalized, <<"u","h","d">>)
         THEN 5
         ELSE IF Includes(normalized, Q2160) THEN 4
         ELSE IF Includes(normalized, Q1080) THEN 3
         ELSE IF Includes(normalized, Q720) THEN 2
         ELSE IF Includes(normalized, Q480) THEN 1
         ELSE 0

isBetterQualityNoCeiling(newQuality, currentQuality, preferredQuality) ==
    getQualityRank(newQuality) > getQualityRank(currentQuality)

isBetterQualityOvershoot(newQuality, currentQuality, preferredQuality) ==
    LET newRank == getQualityRank(newQuality)
        currentRank == getQualityRank(currentQuality)
        preferredRank == getQualityRank(preferredQuality)
    IN  IF newRank > currentRank
        THEN currentRank <= preferredRank \/ newRank <= preferredRank
        ELSE FALSE

\* The comparison with >= in place of >: an equal rank counts as better.
isBetterQualityOrEqual(newQuality, currentQuality, preferredQuality) ==
    LET newRank == getQualityRank(newQuality)
        currentRank == getQualityRank(currentQuality)
        preferredRank == getQualityRank(preferredQuality)
    IN  IF newRank >= currentRank
        THEN currentRank < preferredRank \/ newRank <= preferredRank
        ELSE FALSE

isBetterQuality(newQuality, currentQuality, preferredQuality) ==
    LET newRank == getQualityRank(newQuality)
        currentRank == getQualityRank(currentQuality)
        preferredRank == getQualityRank(preferredQuality)
    IN  IF newRank > currentRank
        THEN currentRank < preferredRank \/ newRank <= preferredRank
        ELSE FALSE

(***************************************************************************)
(* Preference matcher.  A size is [num, unit]; convertSizeToGB is kept in  *)
(* integers by returning 1024 times the value in GB (1 GB = 1024 MB).      *)
(***************************************************************************)
SizeUnknown == [num |-> 0, unit |-> "Unknown"]
SizeUndef == [num |-> 0, unit |-> "undefined"]

\* match[2].toUpperCase() of a unit matched by /(GB|MB)/i
unitUpperCase(unit) ==
    CASE unit \in {"GB", "gb", "Gb", "gB"} -> "GB"
      [] unit \in {"MB", "mb", "Mb", "mB"} -> "MB"
      [] OTHER -> "none"

\* The conversion with 1 GB taken as 1000 MB.
convertSizeToGBDecimal(sizeString) ==
    IF sizeString = SizeUndef \/ sizeString = SizeUnknown THEN 0
    ELSE IF unitUpperCase(sizeString.unit) = "none" THEN 0
    ELSE IF unitUpperCase(sizeString.unit) = "GB" THEN sizeString.num * 1000
    ELSE sizeString.num

convertSizeToGB(sizeString) ==
    IF sizeString = SizeUndef \/ sizeString = SizeUnknown THEN 0
    ELSE IF unitUpperCase(sizeString.unit) = "none" THEN 0
    ELSE IF unitUpperCase(sizeString.unit) = "GB" THEN sizeString.num * 1024
    ELSE sizeString.num

(***************************************************************************)
(* Metadata extractor: size and dynamic range of a release name, and the   *)
(* display name of a magnet link.  Sizes in the release names of the model *)
(* are whole numbers (the optional fraction of the size pattern is not     *)
(* exercised), white space is the space character, and query strings carry *)
(* no percent escapes.                                                     *)
(***************************************************************************)
\* End of the run of characters of class c ("\\d" or a literal) that starts
\* at i; i - 1 when the run is empty.
RECURSIVE RunEnd(_, _, _)
RunEnd(s, i, c) ==
    IF i <= Len(s) /\ AtomMatch(c, s[i], FALSE) THEN RunEnd(s, i + 1, c) ELSE i - 1

SizeUnitRe == << <<"g","b">>, <<"m","b">> >>

\* /(\d+)\s*(GB|MB)/i matches at i: the position of the unit, 0 when it
\* does not match.
SizeUnitAt(s, i) ==
    LET digitsEnd == RunEnd(s, i, "\\d")
        unit == RunEnd(s, digitsEnd + 1, " ") + 1
    IN  IF digitsEnd >= i /\ AltMatchAt(s, unit, SizeUnitRe, TRUE) THEN unit ELSE 0

\* parseFloat of a run of digits
RECURSIVE parseFloat(_)
parseFloat(digits) ==
    IF digits = <<>> THEN 0
    ELSE 10 * parseFloat(SubSeq(digits, 1, Len(digits) - 1))
         + (CHOOSE n \in 0..9 :
               <<"0","1","2","3","4","5","6","7","8","9">>[n + 1] = digits[Len(digits)])

\* `${sizeMatch[1]} ${sizeMatch[2]}` of the leftmost match, as the number and
\* the unit convertSizeToGB reads back from it; 'Unknown' without a match.
extractSize(title) ==
    LET starts == {i \in 1..Len(title) : SizeUnitAt(title, i) # 0}
    IN  IF starts = {} THEN SizeUnknown
        ELSE LET i == CHOOSE i \in starts : \A j \in starts : i <= j
                 unit == SizeUnitAt(title, i)
             IN  [num |-> parseFloat(SubSeq(title, i, RunEnd(title, i, "\\d"))),
                  unit |-> title[unit] \o title[unit + 1]]

\* \w
IsWordChar(c) ==
    IsDigit(c) \/ c = "_" \/ toLowerChar(c) \in {LowerCase[i] : i \in 1..26}

extractHDRInfo(title) ==
    LET At(i, word) == MatchAt(title, i, word, TRUE)
        Word(i) == i >= 1 /\ i <= Len(title) /\ IsWordChar(title[i])
        \* \b between the characters i - 1 and i
        Boundary(i) == Word(i - 1) # Word(i)
        Places == 1..Len(title)
        dolbyVision ==
            \E i \in Places :
                \/ At(i, <<"d","o","l","b","y","v","i","s","i","o","n">>)
                \/ /\ At(i, <<"d","o","l","b","y">>)
                   /\ i + 5 <= Len(title)
                   /\ title[i + 5] # "\n"
                   /\ At(i + 6, <<"v","i","s","i","o","n">>)
                \/ At(i, <<"d","v">>)
        hdr10Plus == \E i \in Places : At(i, <<"h","d","r","1","0","+">>)
        hdr10 ==
            \E i \in Places :
                /\ At(i, <<"h","d","r","1","0">>)
                /\ ~(i + 5 <= Len(title) /\ title[i + 5] = "+")
        hdr ==
            /\ \E i \in Places :
                  At(i, <<"h","d","r">>) /\ Boundary(i) /\ Boundary(i + 3)
            /\ ~\E i \in Places : At(i, <<"h","d","r","1","0">>)
    IN  IF dolbyVision THEN "Dolby Vision"
        ELSE IF hdr10Plus THEN "HDR10+"
        ELSE IF hdr10 THEN "HDR10"
        ELSE IF hdr THEN "HDR"
        ELSE "SDR"

\* s.split(sep) for a one-character separator
RECURSIVE Split(_, _)
Split(s, sep) ==
    IF \E i \in 1..Len(s) : s[i] = sep
    THEN LET i == CHOOSE i \in 1..Len(s) :
                     s[i] = sep /\ \A j \in 1..(i - 1) : s[j] # sep
         IN  <<SubSeq(s, 1, i - 1)>> \o Split(SubSeq(s, i + 1, Len(s)), sep)
    ELSE <<s>>

\* URLSearchParams.get(name) over the pairs of a query string: the value of
\* the first pair of that name, with '+' decoded as a space in names and
\* values; Undef (null) when no pair has the name.
RECURSIVE searchParamsGet(_, _)
searchParamsGet(pairs, name) ==
    IF pairs = <<>> THEN Undef
    ELSE LET pair == Split(Head(pairs), "=")
             Decode(s) == [i \in 1..Len(s) |-> IF s[i] = "+" THEN " " ELSE s[i]]
             value == SubSeq(Head(pairs), Len(pair[1]) + 2, Len(Head(pairs)))
         IN  IF Head(pairs) # <<>> /\ Decode(pair[1]) = name
             THEN Decode(value)
             ELSE searchParamsGet(Tail(pairs), name)

\* params.get('dn') || '' of new URLSearchParams(magnetLink.split('?')[1])
displayName(magnetLink) ==
    LET parts == Split(magnetLink, "?")
        dn == IF Len(parts) < 2 THEN Undef
              ELSE searchParamsGet(Split(parts[2], "&"), <<"d","n">>)
    IN  IF dn = Undef THEN <<>> ELSE dn

\* The metadata of a magnet link (codec, which nothing reads, left out).
extractMetadataFromMagnet(magnetLink) ==
    [title |-> cleanTitle(displayName(magnetLink)),
     quality |-> extractQuality(displayName(magnetLink)),
     size |-> extractSize(displayName(magnetLink)),
     type |-> detectContentType(displayName(magnetLink)),
     hdr |-> extractHDRInfo(displayName(magnetLink))]

RemuxRe == << <<"r","e","m","u","x">> >>
BlurayRe == << <<"b","l","u","r","a","y">>, <<"b","d","r","i","p">> >>
WebRe == << <<"w","e","b","-","d","l">>, <<"w","e","b","r","i","p">> >>

hasPreferredType(metadata, type) ==
    CASE type = "remux" -> Test(metadata.title, RemuxRe, TRUE)
      [] type = "bluray" -> Test(metadata.title, BlurayRe, TRUE)
      [] type = "web" -> Test(metadata.title, WebRe, TRUE)
      [] OTHER -> FALSE

matchesOtherPreferences(metadata, preferences) ==
    IF /\ Len(preferences.fileTypes) > 0
       /\ ~\E k \in 1..Len(preferences.fileTypes) :
              hasPreferredType(metadata, preferences.fileTypes[k])
    THEN FALSE
    ELSE IF /\ preferences.maxSize # SizeUndef
            /\ metadata.size # SizeUnknown
            /\ convertSizeToGB(metadata.size) > convertSizeToGB(preferences.maxSize)
    THEN FALSE
    ELSE TRUE

isHDRContent(metadata) == metadata.hdr \notin {"undefined", "", "SDR"}

\* matchesPreferences with the allowLowerQuality test left out.
matchesPreferencesLowerAllowed(metadata, preferences) ==
    IF /\ preferences.hdrPreference \notin {"undefined", "any"}
       /\ \/ preferences.hdrPreference = "sdr-only" /\ isHDRContent(metadata)
          \/ preferences.hdrPreference = "hdr-only" /\ ~isHDRContent(metadata)
    THEN FALSE
    ELSE IF preferences.quality \notin {Undef, <<>>} /\ metadata.quality # QUnknown
    THEN LET metadataRank == getQualityRank(metadata.quality)
             preferredRank == getQualityRank(preferences.quality)
         IN  IF metadataRank > preferredRank /\ ~preferences.allowHigherQuality
             THEN FALSE
             ELSE matchesOtherPreferences(metadata, preferences)
    ELSE matchesOtherPreferences(metadata, preferences)

\* matchesPreferences with 'hdr-preferred' filtering like 'hdr-only'.
matchesPreferencesHdrPreferredFilters(metadata, preferences) ==
    IF /\ preferences.hdrPreference \notin {"undefined", "any"}
       /\ \/ preferences.hdrPreference = "sdr-only" /\ isHDRContent(metadata)
          \/ preferences.hdrPreference \in {"hdr-only", "hdr-preferred"}
                /\ ~isHDRContent(metadata)
    THEN FALSE
    ELSE IF preferences.quality \notin {Undef, <<>>} /\ metadata.quality # QUnknown
    THEN LET metadataRank == getQualityRank(metadata.quality)
             preferredRank == getQualityRank(preferences.quality)
         IN  IF metadataRank = preferredRank
             THEN matchesOtherPreferences(metadata, preferences)
             ELSE IF metadataRank > preferredRank /\ ~preferences.allowHigherQuality
             THEN FALSE
             ELSE IF metadataRank < preferredRank /\ ~preferences.allowLowerQuality
             THEN FALSE
             ELSE matchesOtherPreferences(metadata, preferences)
    ELSE matchesOtherPreferences(metadata, preferences)

matchesPreferences(metadata, preferences) ==
    IF /\ preferences.hdrPreference \notin {"undefined", "any"}
       /\ \/ preferences.hdrPreference = "sdr-only" /\ isHDRContent(metadata)
          \/ preferences.hdrPreference = "hdr-only" /\ ~isHDRContent(metadata)
    THEN FALSE
    ELSE IF preferences.quality \notin {Undef, <<>>} /\ metadata.quality # QUnknown
    THEN LET metadataRank == getQualityRank(metadata.quality)
             preferredRank == getQualityRank(preferences.quality)
         IN  IF metadataRank = preferredRank
             THEN matchesOtherPreferences(metadata, preferences)
             ELSE IF metadataRank > preferredRank /\ ~preferences.allowHigherQuality
             THEN FALSE
             ELSE IF metadataRank < preferredRank /\ ~preferences.allowLowerQuality
             THEN FALSE
             ELSE matchesOtherPreferences(metadata, preferences)
    ELSE matchesOtherPreferences(metadata, preferences)

\* The clauses matchesPreferences and matchesOtherPreferences reach for one
\* candidate, in the order the code reaches them, each with whether the
\* candidate passed it (a clause that returns false ends the evaluation).
Clause(name, passed) ==
    [op |-> "clause", target |-> name, for |-> "matchesPreferences", ok |-> passed]

otherClauses(metadata, preferences) ==
    LET typePassed ==
            ~(/\ Len(preferences.fileTypes) > 0
              /\ ~\E k \in 1..Len(preferences.fileTypes) :
                     hasPreferredType(metadata, preferences.fileTypes[k]))
        sizePassed ==
            ~(/\ preferences.maxSize # SizeUndef
              /\ metadata.size # SizeUnknown
              /\ convertSizeToGB(metadata.size) > convertSizeToGB(preferences.maxSize))
    IN  IF ~typePassed THEN <<Clause("fileTypes", FALSE)>>
        ELSE <<Clause("fileTypes", TRUE), Clause("maxSize", sizePassed)>>

clausesReached(metadata, preferences) ==
    LET hdrPassed ==
            ~(/\ preferences.hdrPreference \notin {"undefined", "any"}
              /\ \/ preferences.hdrPreference = "sdr-only" /\ isHDRContent(metadata)
                 \/ preferences.hdrPreference = "hdr-only" /\ ~isHDRContent(metadata))
        qualityTested ==
            preferences.quality \notin {Undef, <<>>} /\ metadata.quality # QUnknown
        metadataRank == getQualityRank(metadata.quality)
        preferredRank == getQualityRank(preferences.quality)
        qualityPassed ==
            ~(/\ qualityTested
              /\ metadataRank # preferredRank
              /\ \/ metadataRank > preferredRank /\ ~preferences.allowHigherQuality
                 \/ metadataRank < preferredRank /\ ~preferences.allowLowerQuality)
    IN  IF ~hdrPassed THEN <<Clause("hdrPreference", FALSE)>>
        ELSE IF ~qualityPassed
        THEN <<Clause("hdrPreference", TRUE), Clause("quality", FALSE)>>
        ELSE <<Clause("hdrPreference", TRUE), Clause("quality", TRUE)>>
             \o otherClauses(metadata, preferences)

(***************************************************************************)
(* Hash list processing.                                                   *)
(***************************************************************************)
MagnetPrefix ==
    <<"m","a","g","n","e","t",":","?","x","t","=","u","r","n",":","b","t","i","h",":">>

\* text.startsWith('magnet:?xt=urn:btih:')
isMagnetLink(text) == MatchAt(text, 1, MagnetPrefix, FALSE)

\* The loop over the lines: processed, in the order of the pushes.
processHashListForMatching(hashListContent, preferences) ==
    LET lines == Split(hashListContent, "\n")
        trimmed == [i \in 1..Len(lines) |-> Trim(lines[i])]
        Pushed(t) ==
            /\ t # <<>>
            /\ isMagnetLink(t)
            /\ matchesPreferences(extractMetadataFromMagnet(t), preferences)
        kept == SelectSeq(trimmed, Pushed)
    IN  [i \in 1..Len(kept) |->
            LET metadata == extractMetadataFromMagnet(kept[i])
            IN  [magnet |-> kept[i], title |-> metadata.title,
                 quality |-> metadata.quality, size |-> metadata.size,
                 type |-> metadata.type]]

(***************************************************************************)
(* Grouping.  A Map is the sequence of its entries [key, members] in       *)
(* insertion order.                                                        *)
(***************************************************************************)
HasKey(groups, key) == \E g \in 1..Len(groups) : groups[g].key = key

\* A push that sets a fresh array on every call, losing earlier members.
MapPushOverwrite(groups, key, match) ==
    IF HasKey(groups, key)
    THEN [g \in 1..Len(groups) |->
            IF groups[g].key = key
            THEN [groups[g] EXCEPT !.members = <<match>>]
            ELSE groups[g]]
    ELSE Append(groups, [key |-> key, members |-> <<match>>])

\* groups.get(key).push(match), after groups.set(key, []) for a new key
MapPush(groups, key, match) ==
    IF HasKey(groups, key)
    THEN [g \in 1..Len(groups) |->
            IF groups[g].key = key
            THEN [groups[g] EXCEPT !.members = Append(@, match)]
            ELSE groups[g]]
    ELSE Append(groups, [key |-> key, members |-> <<match>>])

titleKey(match) == cleanTitle(match.title)

RECURSIVE GroupByTitleFrom(_, _, _)
GroupByTitleFrom(matches, i, groups) ==
    IF i > Len(matches) THEN groups
    ELSE GroupByTitleFrom(matches, i + 1,
                          MapPush(groups, titleKey(matches[i]), matches[i]))

groupByTitle(matches) == GroupByTitleFrom(matches, 1, <<>>)

SeasonRe == << <<"s","\\d","\\d">> >>
EpisodeRe == << <<"s","\\d","\\d","e","\\d","\\d">> >>
CompleteSeasonRe == << <<"c","o","m","p","l","e","t","e">>,
                       <<"s","e","a","s","o","n">>, <<"s","\\d","\\d">> >>

seasonKey(match) ==
    LET groupKey == cleanTitle(match.title)
        seasonMatch == FirstMatch(match.title, SeasonRe, TRUE)
        episodeMatch == FirstMatch(match.title, EpisodeRe, TRUE)
    IN  IF seasonMatch # 0
        THEN LET seasonNum == SubSeq(match.title, seasonMatch + 1, seasonMatch + 2)
             IN  IF episodeMatch # 0
                 THEN groupKey \o <<"_","S">> \o seasonNum
                        \o <<"_","I","n","d","i","v","i","d","u","a","l">>
                 ELSE groupKey \o <<"_","S">> \o seasonNum \o <<"_","P","a","c","k">>
        ELSE groupKey \o <<"_","C","o","m","p","l","e","t","e">>

RECURSIVE GroupBySeasonFrom(_, _, _)
GroupBySeasonFrom(matches, i, groups) ==
    IF i > Len(matches) THEN groups
    ELSE GroupBySeasonFrom(matches, i + 1,
                           MapPush(groups, seasonKey(matches[i]), matches[i]))

groupShowsBySeasonStructure(matches) == GroupBySeasonFrom(matches, 1, <<>>)

(***************************************************************************)
(* Best-match selection.                                                   *)
(***************************************************************************)
\* A sort with the comparator reversed: (a, b) => rank(a) - rank(b).
RECURSIVE InsertByRankAscending(_, _)
InsertByRankAscending(sorted, m) ==
    IF sorted = <<>> THEN <<m>>
    ELSE IF getQualityRank(Head(sorted).quality) <= getQualityRank(m.quality)
         THEN <<Head(sorted)>> \o InsertByRankAscending(Tail(sorted), m)
         ELSE <<m>> \o sorted

\* Array.prototype.sort with (a, b) => rank(b) - rank(a): stable, descending.
RECURSIVE InsertByRank(_, _)
InsertByRank(sorted, m) ==
    IF sorted = <<>> THEN <<m>>
    ELSE IF getQualityRank(Head(sorted).quality) >= getQualityRank(m.quality)
         THEN <<Head(sorted)>> \o InsertByRank(Tail(sorted), m)
         ELSE <<m>> \o sorted

RECURSIVE SortFrom(_, _, _)
SortFrom(matches, i, sorted) ==
    IF i > Len(matches) THEN sorted
    ELSE SortFrom(matches, i + 1, InsertByRank(sorted, matches[i]))

sortByRank(matches) == SortFrom(matches, 1, <<>>)

\* The loop over sortedMatches: index of the member it breaks on, 0 if none.
RECURSIVE ScanSorted(_, _, _)
ScanSorted(sortedMatches, i, preferredRank) ==
    IF i > Len(sortedMatches) THEN 0
    ELSE LET matchRank == getQualityRank(sortedMatches[i].quality)
         IN  IF matchRank = preferredRank THEN i
             ELSE IF matchRank <= preferredRank THEN i
             ELSE ScanSorted(sortedMatches, i + 1, preferredRank)

\* bestMatch of one group: <<>> for null, else the one member.
selectBestMatch(matches, preferences) ==
    LET sortedMatches == sortByRank(matches)
        preferredRank == getQualityRank(preferences.quality)
        found == ScanSorted(sortedMatches, 1, preferredRank)
    IN  IF found # 0 THEN <<sortedMatches[found]>>
        ELSE IF preferences.allowHigherQuality THEN <<sortedMatches[1]>>
        ELSE <<>>

RECURSIVE BestOfGroups(_, _, _, _)
BestOfGroups(groups, g, preferences, checkPreferences) ==
    IF g > Len(groups) THEN <<>>
    ELSE LET bestMatch == selectBestMatch(groups[g].members, preferences)
         IN  (IF /\ bestMatch # <<>>
                 /\ (checkPreferences => matchesPreferences(bestMatch[1], preferences))
              THEN bestMatch ELSE <<>>)
             \o BestOfGroups(groups, g + 1, preferences, checkPreferences)

findBestQualityMatchUnchecked(allMatches, preferences) ==
    IF Len(allMatches) = 0 THEN <<>>
    ELSE BestOfGroups(groupByTitle(allMatches), 1, preferences, FALSE)

findBestQualityMatch(allMatches, preferences) ==
    IF Len(allMatches) = 0 THEN <<>>
    ELSE BestOfGroups(groupByTitle(allMatches), 1, preferences, TRUE)

\* The filter callback of findBestQualityMatchForShow.
showFilter(match, preferences) ==
    IF ~matchesPreferences(match, preferences) THEN FALSE
    ELSE IF preferences.completeSeasons
    THEN IF Test(match.title, CompleteSeasonRe, TRUE) THEN TRUE
         ELSE IF Test(match.title, EpisodeRe, TRUE) THEN FALSE
         ELSE TRUE
    ELSE TRUE

findBestQualityMatchForShow(allMatches, preferences) ==
    IF Len(allMatches) = 0 THEN <<>>
    ELSE LET Keep(m) == showFilter(m, preferences)
             filteredMatches == SelectSeq(allMatches, Keep)
         IN  BestOfGroups(groupShowsBySeasonStructure(filteredMatches), 1,
                          preferences, FALSE)

(***************************************************************************)
(* Upgrade candidates of one held item.  An optional number is <<>> when   *)
(* the field is not supplied and <<n>> when it is.                         *)
(***************************************************************************)
DefaultUpgradeMatches == 3

\* preferences.maxUpgradeMatches || 3
upgradeLimit(preferences) ==
    IF preferences.maxUpgradeMatches = <<>> \/ preferences.maxUpgradeMatches = <<0>>
    THEN DefaultUpgradeMatches
    ELSE preferences.maxUpgradeMatches[1]

\* Array.prototype.slice(0, end)
Slice(s, end) ==
    IF end >= 0 THEN SubSeq(s, 1, IF end < Len(s) THEN end ELSE Len(s))
    ELSE SubSeq(s, 1, IF Len(s) + end > 0 THEN Len(s) + end ELSE 0)

findBetterQualityMatches(allMatches, currentQuality, preferences) ==
    LET Keep(m) == /\ isBetterQuality(m.quality, currentQuality, preferences.quality)
                   /\ matchesPreferences(m, preferences)
        betterMatches == SelectSeq(allMatches, Keep)
    IN  Slice(sortByRank(betterMatches), upgradeLimit(preferences))

(***************************************************************************)
(* Idle values of the variables an operation does not use.                 *)
(***************************************************************************)
NoScanResults == [checkedTorrents |-> 0, upgradesFound |-> 0,
                  upgradesAdded |-> 0, errors |-> <<>>]

IdleScan ==
    /\ sargs = <<>>
    /\ torrents = <<>>
    /\ ti = 0
    /\ better = <<>>
    /\ mi = 0
    /\ scan = NoScanResults
    /\ cont = "none"

\* The results object of runAutoAddProcess (addedToRD, upgradesFound) and of
\* runAutoAddProcessSeparate (moviesAdded, showsAdded, movieUpgradesFound,
\* showUpgradesFound); a field the operation does not have stays 0.
NoResults == [moviesProcessed |-> 0, showsProcessed |-> 0, addedToRD |-> 0,
              moviesAdded |-> 0, showsAdded |-> 0, upgradesFound |-> 0,
              movieUpgradesFound |-> 0, showUpgradesFound |-> 0,
              upgradesAdded |-> 0, errors |-> <<>>]

IdleAuto ==
    /\ phase = "none"
    /\ watch = <<>>
    /\ wi = 0
    /\ best = <<>>
    /\ bi = 0
    /\ results = NoResults

\* The proxy list and the proxy state the constructor sets up.
corsProxies == <<"allorigins", "cors-anywhere", "thingproxy", "corsproxy",
                 "cors.eu.org", "yacdn">>

IdleFetch ==
    /\ currentProxyIndex = 0
    /\ corsProxy = corsProxies[currentProxyIndex + 1]
    /\ fetch = <<>>

(***************************************************************************)
(* SpecQuality: isBetterQuality applied to every triple of quality values. *)
(***************************************************************************)
Qualities == {Undef, <<>>, QUnknown, Q576, Q480, Q720, Q1080, Q2160, Q4K, QUHD}

InitQuality ==
    /\ pc = "isBetterQuality"
    /\ args \in [newQuality : Qualities, currentQuality : Qualities,
                 preferredQuality : Qualities]
    /\ ret = NoRet
    /\ calls = <<>>
    /\ IdleScan
    /\ IdleAuto
    /\ IdleFetch

IsBetterQualityCall ==
    /\ pc = "isBetterQuality"
    /\ ret' = isBetterQuality(args.newQuality, args.currentQuality,
                              args.preferredQuality)
    /\ pc' = "done"
    /\ UNCHANGED <<fetchVars, args, calls, scanVars, autoVars>>

NextQuality == IsBetterQualityCall

SpecQuality == InitQuality /\ [][NextQuality]_vars

(***************************************************************************)
(* SpecSelect: grouping and best-match selection on every list of up to    *)
(* MaxMatches candidates.                                                  *)
(***************************************************************************)
Match(magnet, title, quality, hdr) ==
    [magnet |-> magnet, title |-> title, quality |-> quality, hdr |-> hdr,
     size |-> SizeUnknown]

MatchPool ==
    { Match("m1", <<"X",".","2","1","6","0","p">>, Q2160, "HDR10"),
      Match("m2", <<"X",".","1","0","8","0","p">>, Q1080, "SDR"),
      Match("m3", <<"X",".","1","0","8","0","p">>, Q1080, "HDR10"),
      Match("m4", <<"X",".","7","2","0","p">>, Q720, "SDR"),
      Match("m5", <<"X",".","4","3","2","1">>, QUnknown, "SDR"),
      Match("m6", <<"Y",".","S","0","1",".","1","0","8","0","p">>, Q1080, "SDR"),
      Match("m7", <<"Y",".","S","0","1","E","0","2",".","1","0","8","0","p">>,
            Q1080, "SDR"),
      Match("m8", <<"Y",".","S","0","1","E","0","2",".","2","1","6","0","p">>,
            Q2160, "HDR10") }

\* The lists without repetition of at most n members of S.
ListsOf(S, n) ==
    UNION { { f \in [1..k -> S] : \A i, j \in 1..k : i # j => f[i] # f[j] } :
            k \in 0..n }

Preferences(quality, higher, lower, hdr, seasons, limit, auto, delete) ==
    [quality |-> quality, allowHigherQuality |-> higher,
     allowLowerQuality |-> lower, hdrPreference |-> hdr,
     completeSeasons |-> seasons, maxUpgradeMatches |-> limit,
     autoUpgrade |-> auto, deleteOldAfterUpgrade |-> delete,
     fileTypes |-> <<>>, maxSize |-> SizeUndef]

SelectPreferences ==
    { Preferences(q, h, l, hdr, cs, <<>>, FALSE, FALSE) :
        q \in {Undef, Q1080, Q2160}, h \in BOOLEAN, l \in BOOLEAN,
        hdr \in {"undefined", "sdr-only"}, cs \in BOOLEAN }

InitSelect ==
    /\ pc = "start"
    /\ args \in [allMatches : ListsOf(MatchPool, MaxMatches),
                 preferences : SelectPreferences]
    /\ ret = [op |-> "none", value |-> <<>>]
    /\ calls = <<>>
    /\ IdleScan
    /\ IdleAuto
    /\ IdleFetch

Return(op, value) ==
    /\ pc = "start"
    /\ pc' = "done"
    /\ ret' = [op |-> op, value |-> value]
    /\ UNCHANGED <<fetchVars, args, calls, scanVars, autoVars>>

FindBestQualityMatchCall ==
    Return("findBestQualityMatch",
           findBestQualityMatch(args.allMatches, args.preferences))

FindBestQualityMatchForShowCall ==
    Return("findBestQualityMatchForShow",
           findBestQualityMatchForShow(args.allMatches, args.preferences))

NextSelect ==
    \/ FindBestQualityMatchCall
    \/ FindBestQualityMatchForShowCall

SpecSelect == InitSelect /\ [][NextSelect]_vars

(***************************************************************************)
(* SpecGroup: groupByTitle and groupShowsBySeasonStructure on every list   *)
(* of up to MaxMatches candidates.                                         *)
(***************************************************************************)
InitGroup ==
    /\ pc = "start"
    /\ args \in [allMatches : ListsOf(MatchPool, MaxMatches)]
    /\ ret = [op |-> "none", value |-> <<>>]
    /\ calls = <<>>
    /\ IdleScan
    /\ IdleAuto
    /\ IdleFetch

GroupByTitleCall == Return("groupByTitle", groupByTitle(args.allMatches))

GroupShowsBySeasonStructureCall ==
    Return("groupShowsBySeasonStructure",
           groupShowsBySeasonStructure(args.allMatches))

NextGroup ==
    \/ GroupByTitleCall
    \/ GroupShowsBySeasonStructureCall

SpecGroup == InitGroup /\ [][NextGroup]_vars

(***************************************************************************)
(* SpecBetter: findBetterQualityMatches on every list of up to MaxMatches  *)
(* candidates, held quality and upgrade limit.                             *)
(***************************************************************************)
BetterPreferences ==
    { Preferences(q, h, l, "undefined", FALSE, limit, FALSE, FALSE) :
        q \in {Undef, Q1080, Q2160}, h \in BOOLEAN, l \in BOOLEAN,
        limit \in {<<>>, <<0>>, <<1>>, <<2>>} }

InitBetter ==
    /\ pc = "start"
    /\ args \in [allMatches : ListsOf(MatchPool, MaxMatches),
                 currentQuality : {QUnknown, Q720, Q1080},
                 preferences : BetterPreferences]
    /\ ret = [op |-> "none", value |-> <<>>]
    /\ calls = <<>>
    /\ IdleScan
    /\ IdleAuto
    /\ IdleFetch

FindBetterQualityMatchesCall ==
    Return("findBetterQualityMatches",
           findBetterQualityMatches(args.allMatches, args.currentQuality,
                                    args.preferences))

NextBetter == FindBetterQualityMatchesCall

SpecBetter == InitBetter /\ [][NextBetter]_vars

(***************************************************************************)
(* SpecRank: getQualityRank on every quality value, and the three          *)
(* operations that sort by it (findBestQualityMatch,                       *)
(* findBestQualityMatchForShow, findBetterQualityMatches) on every list of *)
(* up to MaxMatches candidates, under preferences that filter nothing.     *)
(***************************************************************************)
RankPreferences ==
    { Preferences(Undef, TRUE, TRUE, "undefined", FALSE, <<>>, FALSE, FALSE),
      Preferences(QUHD, TRUE, TRUE, "undefined", FALSE, <<>>, FALSE, FALSE) }

RankPool == {m \in MatchPool : m.magnet \in {"m1", "m2", "m4", "m5", "m7", "m8"}}

InitRank ==
    /\ pc = "start"
    /\ args \in [allMatches : ListsOf(RankPool, MaxMatches),
                 currentQuality : Qualities,
                 preferences : RankPreferences]
    /\ ret = [op |-> "none", value |-> <<>>]
    /\ calls = <<>>
    /\ IdleScan
    /\ IdleAuto
    /\ IdleFetch

GetQualityRankCall ==
    Return("getQualityRank", getQualityRank(args.currentQuality))

NextRank ==
    \/ GetQualityRankCall
    \/ FindBestQualityMatchCall
    \/ FindBestQualityMatchForShowCall
    \/ FindBetterQualityMatchesCall

SpecRank == InitRank /\ [][NextRank]_vars

(***************************************************************************)
(* SpecMatch: matchesPreferences on one candidate and one preference       *)
(* record.  A size "n GB" or "n MB" is [num |-> n, unit].                   *)
(***************************************************************************)
Size(num, unit) == [num |-> num, unit |-> unit]

MatchTitles == { <<"X">>, <<"X", ".", "B", "l", "u", "R", "a", "y">> }

MatchMetadata ==
    [title : MatchTitles,
     quality : {QUnknown, Q576, Q720, Q1080, Q2160},
     hdr : {"SDR", "HDR10", "Dolby Vision"},
     size : {SizeUnknown, Size(1024, "MB"), Size(1, "GB"), Size(1025, "MB"),
             Size(2, "gb")}]

MatchPreferences ==
    [quality : {Undef, Q720, Q1080},
     allowHigherQuality : BOOLEAN,
     allowLowerQuality : BOOLEAN,
     hdrPreference : {"undefined", "any", "sdr-only", "hdr-only", "hdr-preferred"},
     fileTypes : {<<>>, <<"bluray">>},
     maxSize : {SizeUndef, Size(1, "GB"), Size(1024, "MB")}]

InitMatch ==
    /\ pc = "start"
    /\ args \in [metadata : MatchMetadata, preferences : MatchPreferences]
    /\ ret = [op |-> "none", value |-> <<>>]
    /\ calls = <<>>
    /\ IdleScan
    /\ IdleAuto
    /\ IdleFetch

MatchesPreferencesCall ==
    /\ pc = "start"
    /\ pc' = "done"
    /\ ret' = [op |-> "matchesPreferences",
               value |-> matchesPreferences(args.metadata, args.preferences)]
    /\ calls' = clausesReached(args.metadata, args.preferences)
    /\ UNCHANGED <<fetchVars, args, scanVars, autoVars>>

NextMatch == MatchesPreferencesCall

SpecMatch == InitMatch /\ [][NextMatch]_vars

(***************************************************************************)
(* SpecClean: cleanTitle on every title made of up to MaxTokens fragments. *)
(***************************************************************************)
TitleFragments ==
    { <<"X">>, <<" ">>, <<"1","2">>, <<"3","4">>, <<"7","2","0","p">>,
      <<"H","E","V","C">>, <<"B","l","u","R","a","y">>,
      <<"[","a","]">>, <<"(","b",")">> }

RECURSIVE Concat(_)
Concat(fragments) ==
    IF fragments = <<>> THEN <<>> ELSE Head(fragments) \o Concat(Tail(fragments))

Titles ==
    UNION { { Concat(f) : f \in [1..k -> TitleFragments] } : k \in 0..MaxTokens }

InitClean ==
    /\ pc = "start"
    /\ args \in [title : Titles]
    /\ ret = [op |-> "none", value |-> <<>>]
    /\ calls = <<>>
    /\ IdleScan
    /\ IdleAuto
    /\ IdleFetch

CleanTitleCall == Return("cleanTitle", cleanTitle(args.title))

NextClean == CleanTitleCall

SpecClean == InitClean /\ [][NextClean]_vars

(***************************************************************************)
(* SpecHash: processHashListForMatching on every hash list of up to        *)
(* MaxLines different lines, under preferences with and without a          *)
(* release-type whitelist.                                                 *)
(***************************************************************************)
Magnet(hash, dn) == MagnetPrefix \o hash \o <<"&","d","n","=">> \o dn

HashLines ==
    { Magnet(<<"a","1">>, <<"X",".","1","0","8","0","p",".","B","l","u","R","a","y">>),
      Magnet(<<"a","2">>, <<"X",".","1","0","8","0","p",".","W","E","B","-","D","L">>),
      <<" ">> \o Magnet(<<"a","3">>, <<"X","+","1","0","8","0","p","+","r","e","m","u","x">>),
      Magnet(<<"a","4">>, <<"X",".","7","2","0","p",".","B","D","R","i","p",".",
                             "H","D","R",".","4","G","B">>),
      Magnet(<<"a","5">>, <<"X",".","1","0","8","0","p">>),
      <<"X",".","1","0","8","0","p",".","B","l","u","R","a","y">> }

\* lines.join('\n')
RECURSIVE Join(_)
Join(lines) ==
    IF lines = <<>> THEN <<>>
    ELSE IF Len(lines) = 1 THEN lines[1]
    ELSE lines[1] \o <<"\n">> \o Join(Tail(lines))

HashPreferences ==
    [quality : {Undef, Q1080},
     allowHigherQuality : {FALSE},
     allowLowerQuality : {FALSE},
     hdrPreference : {"undefined", "sdr-only"},
     fileTypes : {<<>>, <<"bluray">>, <<"web">>, <<"remux">>, <<"web", "bluray">>,
                  <<"other">>},
     maxSize : {SizeUndef, [num |-> 2, unit |-> "GB"]}]

InitHash ==
    /\ pc = "start"
    /\ args \in [hashListContent : {Join(l) : l \in ListsOf(HashLines, MaxLines)},
                 preferences : HashPreferences]
    /\ ret = [op |-> "none", value |-> <<>>]
    /\ calls = <<>>
    /\ IdleScan
    /\ IdleAuto
    /\ IdleFetch

ProcessHashListForMatchingCall ==
    Return("processHashListForMatching",
           processHashListForMatching(args.hashListContent, args.preferences))

NextHash == ProcessHashListForMatchingCall

SpecHash == InitHash /\ [][NextHash]_vars

(***************************************************************************)
(* fetchWithFallback, one action per step between two awaits, for each     *)
(* call under way (fetch[c] holds the locals of call c).  fetch(proxyUrl)  *)
(* answers as the environment chooses: an ok response, a response that is  *)
(* not ok with a status below 400, a status of 400 or more, or an          *)
(* exception.  calls records every attempt: the proxy it went through, the *)
(* call it was made for and whether it succeeded.                          *)
(***************************************************************************)
\* One collaborator call in the log.
Call(op, target, for, ok) == [op |-> op, target |-> target, for |-> for, ok |-> ok]

ProxyAt(index) == corsProxies[index + 1]

\* The locals of a call that has not started.
FetchLocals(maxRetries) ==
    [pc |-> "called", maxRetries |-> maxRetries, attempt |-> 0,
     originalProxyIndex |-> 0, lastError |-> "null", proxy |-> "none",
     result |-> "none"]

\* A failed attempt that has a next one, the next index not advanced.
FetchRetrySameProxy(c, error) ==
    /\ fetch' = [fetch EXCEPT ![c].lastError = error, ![c].pc = "awaitNextProxy"]
    /\ UNCHANGED <<currentProxyIndex, corsProxy>>

\* catch (error): lastError = error; await this.tryNextProxy()
FetchRetry(c, error) ==
    /\ currentProxyIndex' = (currentProxyIndex + 1) % Len(corsProxies)
    /\ corsProxy' = ProxyAt(currentProxyIndex')
    /\ fetch' = [fetch EXCEPT ![c].lastError = error, ![c].pc = "awaitNextProxy"]

\* The loop is over: reset to the original proxy and throw.
FetchGiveUp(c, error) ==
    /\ currentProxyIndex' = fetch[c].originalProxyIndex
    /\ corsProxy' = ProxyAt(currentProxyIndex')
    /\ fetch' = [fetch EXCEPT ![c].lastError = error,
                              ![c].pc = "thrown",
                              ![c].result = "All CORS proxies failed"]

\* fetchWithFallback is called: up to the first await
FetchCall(c) ==
    /\ fetch[c].pc = "called"
    /\ IF fetch[c].maxRetries > 0
       THEN /\ fetch' = [fetch EXCEPT ![c].originalProxyIndex = currentProxyIndex,
                                      ![c].proxy = corsProxy,
                                      ![c].pc = "awaitFetch"]
            /\ UNCHANGED <<currentProxyIndex, corsProxy>>
       ELSE /\ fetch' = [fetch EXCEPT ![c].originalProxyIndex = currentProxyIndex,
                                      ![c].pc = "thrown",
                                      ![c].result = "All CORS proxies failed"]
            /\ UNCHANGED <<currentProxyIndex, corsProxy>>
    /\ UNCHANGED calls

\* fetch(proxyUrl) answered
FetchAnswer(c) ==
    /\ fetch[c].pc = "awaitFetch"
    /\ \E answer \in {"ok", "not ok below 400", "HTTP 400+", "exception"} :
          LET failed == answer \in {"HTTP 400+", "exception"}
          IN  /\ calls' = Append(calls, Call("fetch", fetch[c].proxy, c, ~failed))
              /\ IF ~failed
                 THEN /\ fetch' = [fetch EXCEPT ![c].pc = "returned",
                                                ![c].result = answer]
                      /\ UNCHANGED <<currentProxyIndex, corsProxy>>
                 ELSE IF fetch[c].attempt < fetch[c].maxRetries - 1
                 THEN FetchRetry(c, answer)
                 ELSE FetchGiveUp(c, answer)

\* after await this.tryNextProxy(): attempt++, the next fetch(proxyUrl)
FetchNextAttempt(c) ==
    /\ fetch[c].pc = "awaitNextProxy"
    /\ fetch' = [fetch EXCEPT ![c].attempt = @ + 1,
                              ![c].proxy = corsProxy,
                              ![c].pc = "awaitFetch"]
    /\ UNCHANGED <<currentProxyIndex, corsProxy, calls>>

FetchStep ==
    /\ \E c \in DOMAIN fetch :
          \/ FetchCall(c)
          \/ FetchAnswer(c)
          \/ FetchNextAttempt(c)
    /\ UNCHANGED <<pc, args, ret, scanVars, autoVars>>

(***************************************************************************)
(* SpecFetch: one call of fetchWithFallback with maxRetries up to          *)
(* MaxRetries, on an APIManager whose earlier calls left any proxy         *)
(* current.                                                                *)
(***************************************************************************)
InitFetch ==
    /\ pc = "fetchWithFallback"
    /\ args \in [maxRetries : 0..MaxRetries,
                 currentProxyIndex : 0..(Len(corsProxies) - 1)]
    /\ ret = [op |-> "none", value |-> <<>>]
    /\ calls = <<>>
    /\ currentProxyIndex = args.currentProxyIndex
    /\ corsProxy = ProxyAt(currentProxyIndex)
    /\ fetch = [c \in {"a"} |-> FetchLocals(args.maxRetries)]
    /\ IdleScan
    /\ IdleAuto

NextFetch == FetchStep

SpecFetch == InitFetch /\ [][NextFetch]_vars

(***************************************************************************)
(* SpecOverlap: two calls of fetchWithFallback on the same APIManager,     *)
(* each with its own maxRetries.  Neither is awaited before the other is   *)
(* made, so their steps interleave at every await.  The first and the     *)
(* last proxy are the ones current at the start.                           *)
(***************************************************************************)
InitOverlap ==
    /\ pc = "fetchWithFallback twice"
    /\ args \in [maxRetries : [{"a", "b"} -> 0..MaxRetries],
                 currentProxyIndex : {0, Len(corsProxies) - 1}]
    /\ ret = [op |-> "none", value |-> <<>>]
    /\ calls = <<>>
    /\ currentProxyIndex = args.currentProxyIndex
    /\ corsProxy = ProxyAt(currentProxyIndex)
    /\ fetch = [c \in {"a", "b"} |-> FetchLocals(args.maxRetries[c])]
    /\ IdleScan
    /\ IdleAuto

NextOverlap == FetchStep

SpecOverlap == InitOverlap /\ [][NextOverlap]_vars

(***************************************************************************)
(* checkForQualityUpgrades, one action per step between two awaits.  The   *)
(* collaborators answer as the environment chooses: getRealDebridTorrents  *)
(* with args.held or a failure, findAllMatchingContent with a list of      *)
(* args.source or by throwing, addMagnetToRealDebrid and                   *)
(* deleteRealDebridTorrent with success or failure.  calls records every   *)
(* collaborator call: its target, the held or watchlist item it was made   *)
(* for, and whether it succeeded.                                          *)
(***************************************************************************)
Push(r, error) == [r EXCEPT !.errors = Append(@, error)]

\* return results: to the caller when there is one
ScanReturn(r) ==
    /\ scan' = r
    /\ pc' = IF cont = "none" THEN "done" ELSE cont
    /\ ret' = IF cont = "none" THEN [op |-> "checkForQualityUpgrades", value |-> r]
              ELSE ret

\* currentTorrents.filter(...) under contentType
FilterByType(held, contentType) ==
    IF contentType = "null" THEN held
    ELSE LET Keep(t) == extractMetadataFromFilename(t.filename).type = contentType
         IN  SelectSeq(held, Keep)

FilterThrows(held, contentType) ==
    /\ contentType # "null"
    /\ \E i \in 1..Len(held) : Throws(held[i].filename)

\* getRealDebridTorrents answered; the filter; checkedTorrents
ScanGetTorrents ==
    /\ pc = "scan:start"
    /\ \E ok \in BOOLEAN :
          /\ calls' = Append(calls, Call("getRealDebridTorrents", "rd", "scan", ok))
          /\ IF ~ok
             THEN /\ ScanReturn(Push(scan, "Failed to get current torrents"))
                  /\ UNCHANGED <<torrents, ti>>
             ELSE IF FilterThrows(args.held, sargs.contentType)
             THEN /\ ScanReturn(Push(scan, "Quality upgrade check error"))
                  /\ UNCHANGED <<torrents, ti>>
             ELSE LET filteredTorrents == FilterByType(args.held, sargs.contentType)
                  IN  /\ torrents' = filteredTorrents
                      /\ ti' = 1
                      /\ scan' = [scan EXCEPT !.checkedTorrents = Len(filteredTorrents)]
                      /\ pc' = "scan:loop"
                      /\ ret' = ret
    /\ UNCHANGED <<fetchVars, args, sargs, better, mi, cont, autoVars>>

\* the for loop is over
ScanEnd ==
    /\ pc = "scan:loop"
    /\ ti > Len(torrents)
    /\ ScanReturn(scan)
    /\ UNCHANGED <<fetchVars, args, sargs, torrents, ti, better, mi, cont, calls, autoVars>>

\* if (torrent.status !== 'downloaded') continue
ScanSkip ==
    /\ pc = "scan:loop"
    /\ ti <= Len(torrents)
    /\ torrents[ti].status # "downloaded"
    /\ ti' = ti + 1
    /\ UNCHANGED <<fetchVars, pc, args, ret, sargs, torrents, better, mi, scan, cont, calls,
                   autoVars>>

\* extractMetadataFromFilename throws: the catch around the loop
ScanExtractThrows ==
    /\ pc = "scan:loop"
    /\ ti <= Len(torrents)
    /\ torrents[ti].status = "downloaded"
    /\ Throws(torrents[ti].filename)
    /\ ScanReturn(Push(scan, "Quality upgrade check error"))
    /\ UNCHANGED <<fetchVars, args, sargs, torrents, ti, better, mi, cont, calls, autoVars>>

\* findBetterQualityMatches: findAllMatchingContent throws
ScanSearchThrows ==
    /\ pc = "scan:loop"
    /\ ti <= Len(torrents)
    /\ torrents[ti].status = "downloaded"
    /\ ~Throws(torrents[ti].filename)
    /\ calls' = Append(calls, Call("findAllMatchingContent",
                                   torrents[ti].filename, torrents[ti].id, FALSE))
    /\ ScanReturn(Push(scan, "Quality upgrade check error"))
    /\ UNCHANGED <<fetchVars, args, sargs, torrents, ti, better, mi, cont, autoVars>>

\* findBetterQualityMatches returns betterMatches; upgradesFound
ScanSearch ==
    /\ pc = "scan:loop"
    /\ ti <= Len(torrents)
    /\ torrents[ti].status = "downloaded"
    /\ ~Throws(torrents[ti].filename)
    /\ \E allMatches \in args.source :
          LET currentMetadata == extractMetadataFromFilename(torrents[ti].filename)
              betterMatches == findBetterQualityMatches(allMatches,
                                   currentMetadata.quality, sargs.preferences)
          IN  /\ better' = betterMatches
              /\ scan' = [scan EXCEPT !.upgradesFound = @ + Len(betterMatches)]
              /\ IF Len(betterMatches) > 0 /\ sargs.preferences.autoUpgrade
                 THEN /\ mi' = 1
                      /\ ti' = ti
                      /\ pc' = "scan:submit"
                 ELSE /\ mi' = mi
                      /\ ti' = ti + 1
                      /\ pc' = "scan:loop"
    /\ calls' = Append(calls, Call("findAllMatchingContent",
                                   torrents[ti].filename, torrents[ti].id, TRUE))
    /\ UNCHANGED <<fetchVars, args, ret, sargs, torrents, cont, autoVars>>

\* the next match of betterMatches, or the next torrent
ScanNextMatch ==
    IF mi < Len(better)
    THEN /\ mi' = mi + 1
         /\ ti' = ti
         /\ pc' = "scan:submit"
    ELSE /\ mi' = mi
         /\ ti' = ti + 1
         /\ pc' = "scan:loop"

\* addMagnetToRealDebrid answered, a failure counted as an upgrade added too.
ScanSubmitCountsFailures ==
    /\ pc = "scan:submit"
    /\ \E ok \in BOOLEAN :
          /\ calls' = Append(calls, Call("addMagnetToRealDebrid",
                                         better[mi].magnet, torrents[ti].id, ok))
          /\ IF ok
             THEN /\ scan' = [scan EXCEPT !.upgradesAdded = @ + 1]
                  /\ IF sargs.preferences.deleteOldAfterUpgrade
                     THEN /\ pc' = "scan:delete"
                          /\ UNCHANGED <<mi, ti>>
                     ELSE ScanNextMatch
             ELSE /\ scan' = [Push(scan, "Failed to upgrade")
                                 EXCEPT !.upgradesAdded = @ + 1]
                  /\ ScanNextMatch
    /\ UNCHANGED <<fetchVars, args, ret, sargs, torrents, better, cont, autoVars>>

\* addMagnetToRealDebrid answered
ScanSubmit ==
    /\ pc = "scan:submit"
    /\ \E ok \in BOOLEAN :
          /\ calls' = Append(calls, Call("addMagnetToRealDebrid",
                                         better[mi].magnet, torrents[ti].id, ok))
          /\ IF ok
             THEN /\ scan' = [scan EXCEPT !.upgradesAdded = @ + 1]
                  /\ IF sargs.preferences.deleteOldAfterUpgrade
                     THEN /\ pc' = "scan:delete"
                          /\ UNCHANGED <<mi, ti>>
                     ELSE ScanNextMatch
             ELSE /\ scan' = Push(scan, "Failed to upgrade")
                  /\ ScanNextMatch
    /\ UNCHANGED <<fetchVars, args, ret, sargs, torrents, better, cont, autoVars>>

\* deleteRealDebridTorrent answered: its result is dropped
ScanDelete ==
    /\ pc = "scan:delete"
    /\ \E ok \in BOOLEAN :
          calls' = Append(calls, Call("deleteRealDebridTorrent",
                                      torrents[ti].id, torrents[ti].id, ok))
    /\ ScanNextMatch
    /\ UNCHANGED <<fetchVars, args, ret, sargs, torrents, better, scan, cont, autoVars>>

ScanStep ==
    \/ ScanGetTorrents
    \/ ScanEnd
    \/ ScanSkip
    \/ ScanExtractThrows
    \/ ScanSearchThrows
    \/ ScanSearch
    \/ ScanSubmit
    \/ ScanDelete

(***************************************************************************)
(* SpecScan: one call of checkForQualityUpgrades on every snapshot of up   *)
(* to MaxHeld held items.                                                  *)
(***************************************************************************)
Held(id, status, filename) == [id |-> id, status |-> status, filename |-> filename]

HeldPool ==
    { Held("t1", "downloaded", <<"X",".","7","2","0","p">>),
      Held("t2", "downloaded", <<"Y",".","S","0","1","E","0","2",".","1","0","8","0","p">>),
      Held("t3", "downloading", <<"X",".","1","0","8","0","p">>),
      Held("t4", "downloaded", Undef) }

ScanPool ==
    { Match("m1", <<"X",".","2","1","6","0","p">>, Q2160, "HDR10"),
      Match("m2", <<"X",".","1","0","8","0","p">>, Q1080, "SDR") }

ScanPreferences ==
    { Preferences(Q2160, FALSE, TRUE, "undefined", FALSE, limit, auto, delete) :
        limit \in {<<>>, <<1>>}, auto \in BOOLEAN, delete \in BOOLEAN }

InitScan ==
    /\ pc = "scan:start"
    /\ args \in [op : {"checkForQualityUpgrades"},
                 held : ListsOf(HeldPool, MaxHeld),
                 source : {ListsOf(ScanPool, MaxMatches)},
                 preferences : ScanPreferences,
                 contentType : {"null", "movie"}]
    /\ sargs = [preferences |-> args.preferences, contentType |-> args.contentType]
    /\ ret = [op |-> "none", value |-> <<>>]
    /\ calls = <<>>
    /\ torrents = <<>>
    /\ ti = 0
    /\ better = <<>>
    /\ mi = 0
    /\ scan = NoScanResults
    /\ cont = "none"
    /\ IdleAuto
    /\ IdleFetch

NextScan == ScanStep

SpecScan == InitScan /\ [][NextScan]_vars

(***************************************************************************)
(* runAutoAddProcess and runAutoAddProcessSeparate, one action per step    *)
(* between two awaits.  args.settings holds checkForUpgrades,              *)
(* autoAddMovies and autoAddShows (fields of preferences in                *)
(* runAutoAddProcess, of globalSettings in runAutoAddProcessSeparate);     *)
(* runAutoAddProcess uses one preferences object for both passes.          *)
(***************************************************************************)
Separate == args.op = "runAutoAddProcessSeparate"

\* this.checkForQualityUpgrades(rdApiKey, preferences, contentType), returning to back
CallScan(preferences, contentType, back) ==
    /\ sargs' = [preferences |-> preferences, contentType |-> contentType]
    /\ scan' = NoScanResults
    /\ cont' = back
    /\ pc' = "scan:start"
    /\ UNCHANGED <<torrents, ti, better, mi>>

StartWatchlists ==
    /\ pc' = "auto:watchlist"
    /\ phase' = "movies"

AutoStart ==
    /\ pc = "auto:start"
    /\ IF args.settings.checkForUpgrades /\ ~Separate
       THEN /\ CallScan(args.moviePreferences, "null", "auto:afterScan")
            /\ phase' = phase
       ELSE IF args.settings.checkForUpgrades /\ args.moviePreferences.autoUpgrade
       THEN /\ CallScan(args.moviePreferences, "movie", "auto:afterMovieScan")
            /\ phase' = phase
       ELSE IF args.settings.checkForUpgrades /\ args.showPreferences.autoUpgrade
       THEN /\ CallScan(args.showPreferences, "tv", "auto:afterShowScan")
            /\ phase' = phase
       ELSE /\ StartWatchlists
            /\ UNCHANGED scanVars
    /\ UNCHANGED <<fetchVars, args, ret, calls, watch, wi, best, bi, results>>

\* runAutoAddProcess: the upgrade results are copied
AutoAfterScan ==
    /\ pc = "auto:afterScan"
    /\ results' = [results EXCEPT !.upgradesFound = scan.upgradesFound,
                                  !.upgradesAdded = scan.upgradesAdded,
                                  !.errors = @ \o scan.errors]
    /\ StartWatchlists
    /\ UNCHANGED <<fetchVars, args, ret, calls, scanVars, watch, wi, best, bi>>

\* runAutoAddProcessSeparate: the movie scan returned; the show scan
AutoAfterMovieScan ==
    /\ pc = "auto:afterMovieScan"
    /\ results' = [results EXCEPT !.movieUpgradesFound = scan.upgradesFound,
                                  !.upgradesAdded = @ + scan.upgradesAdded,
                                  !.errors = @ \o scan.errors]
    /\ IF args.showPreferences.autoUpgrade
       THEN /\ CallScan(args.showPreferences, "tv", "auto:afterShowScan")
            /\ phase' = phase
       ELSE /\ StartWatchlists
            /\ UNCHANGED scanVars
    /\ UNCHANGED <<fetchVars, args, ret, calls, watch, wi, best, bi>>

AutoAfterShowScan ==
    /\ pc = "auto:afterShowScan"
    /\ results' = [results EXCEPT !.showUpgradesFound = scan.upgradesFound,
                                  !.upgradesAdded = @ + scan.upgradesAdded,
                                  !.errors = @ \o scan.errors]
    /\ StartWatchlists
    /\ UNCHANGED <<fetchVars, args, ret, calls, scanVars, watch, wi, best, bi>>

\* the pass is over: the show pass after the movie pass, then return results
NextPass(r) ==
    /\ results' = r
    /\ IF phase = "movies"
       THEN /\ phase' = "shows"
            /\ pc' = "auto:watchlist"
            /\ ret' = ret
       ELSE /\ phase' = phase
            /\ pc' = "done"
            /\ ret' = [op |-> args.op, value |-> r]

PassEnabled ==
    IF phase = "movies" THEN args.settings.autoAddMovies
    ELSE args.settings.autoAddShows

\* if (preferences.autoAddMovies) / if (preferences.autoAddShows) is false
AutoSkipPass ==
    /\ pc = "auto:watchlist"
    /\ ~PassEnabled
    /\ NextPass(results)
    /\ UNCHANGED <<fetchVars, args, calls, scanVars, watch, wi, best, bi>>

WatchPool == {"w1", "w2"}

\* getTraktWatchlist answered
AutoWatchlist ==
    /\ pc = "auto:watchlist"
    /\ PassEnabled
    /\ \/ /\ calls' = Append(calls, Call("getTraktWatchlist", phase, phase, FALSE))
          /\ NextPass(results)
          /\ UNCHANGED <<watch, wi>>
       \/ \E data \in ListsOf(WatchPool, MaxWatch) :
             /\ calls' = Append(calls, Call("getTraktWatchlist", phase, phase, TRUE))
             /\ watch' = data
             /\ wi' = 1
             /\ results' = IF phase = "movies"
                           THEN [results EXCEPT !.moviesProcessed = Len(data)]
                           ELSE [results EXCEPT !.showsProcessed = Len(data)]
             /\ pc' = "auto:item"
             /\ UNCHANGED <<phase, ret>>
    /\ UNCHANGED <<fetchVars, args, scanVars, best, bi>>

\* the for loop over the watchlist is over
AutoPassEnd ==
    /\ pc = "auto:item"
    /\ wi > Len(watch)
    /\ NextPass(results)
    /\ UNCHANGED <<fetchVars, args, calls, scanVars, watch, wi, best, bi>>

\* findAllMatchingContent throws in the selector: the catch around the run
AutoSearchThrows ==
    /\ pc = "auto:item"
    /\ wi <= Len(watch)
    /\ calls' = Append(calls, Call("findAllMatchingContent", watch[wi], phase, FALSE))
    /\ results' = Push(results, "Auto-add process error")
    /\ pc' = "done"
    /\ ret' = [op |-> args.op, value |-> results']
    /\ UNCHANGED <<fetchVars, args, scanVars, phase, watch, wi, best, bi>>

\* The loop over the watchlist taken from its last item to its first.
AutoSearchReversed ==
    /\ pc = "auto:item"
    /\ wi <= Len(watch)
    /\ \E allMatches \in args.source :
          LET bestMatches ==
                  IF phase = "movies"
                  THEN findBestQualityMatch(allMatches, args.moviePreferences)
                  ELSE IF Separate
                  THEN findBestQualityMatchForShow(allMatches, args.showPreferences)
                  ELSE findBestQualityMatch(allMatches, args.showPreferences)
          IN  /\ best' = bestMatches
              /\ IF Len(bestMatches) > 0
                 THEN /\ bi' = 1
                      /\ wi' = wi
                      /\ pc' = "auto:submit"
                 ELSE /\ bi' = bi
                      /\ wi' = wi + 1
                      /\ pc' = "auto:item"
    /\ calls' = Append(calls, Call("findAllMatchingContent",
                                   watch[Len(watch) - wi + 1], phase, TRUE))
    /\ UNCHANGED <<fetchVars, args, ret, scanVars, phase, watch, results>>

\* findBestQualityMatch / findBestQualityMatchForShow returns bestMatches
AutoSearch ==
    /\ pc = "auto:item"
    /\ wi <= Len(watch)
    /\ \E allMatches \in args.source :
          LET bestMatches ==
                  IF phase = "movies"
                  THEN findBestQualityMatch(allMatches, args.moviePreferences)
                  ELSE IF Separate
                  THEN findBestQualityMatchForShow(allMatches, args.showPreferences)
                  ELSE findBestQualityMatch(allMatches, args.showPreferences)
          IN  /\ best' = bestMatches
              /\ IF Len(bestMatches) > 0
                 THEN /\ bi' = 1
                      /\ wi' = wi
                      /\ pc' = "auto:submit"
                 ELSE /\ bi' = bi
                      /\ wi' = wi + 1
                      /\ pc' = "auto:item"
    /\ calls' = Append(calls, Call("findAllMatchingContent", watch[wi], phase, TRUE))
    /\ UNCHANGED <<fetchVars, args, ret, scanVars, phase, watch, results>>

Added(r) ==
    IF ~Separate THEN [r EXCEPT !.addedToRD = @ + 1]
    ELSE IF phase = "movies" THEN [r EXCEPT !.moviesAdded = @ + 1]
    ELSE [r EXCEPT !.showsAdded = @ + 1]

\* addMagnetToRealDebrid answered
AutoSubmit ==
    /\ pc = "auto:submit"
    /\ \E ok \in BOOLEAN :
          /\ calls' = Append(calls, Call("addMagnetToRealDebrid",
                                         best[bi].magnet, phase, ok))
          /\ results' = IF ok THEN Added(results) ELSE Push(results, "Failed to add")
    /\ IF bi < Len(best)
       THEN /\ bi' = bi + 1
            /\ wi' = wi
            /\ pc' = "auto:submit"
       ELSE /\ bi' = bi
            /\ wi' = wi + 1
            /\ pc' = "auto:item"
    /\ UNCHANGED <<fetchVars, args, ret, scanVars, phase, watch, best>>

AutoStep ==
    \/ AutoStart
    \/ AutoAfterScan
    \/ AutoAfterMovieScan
    \/ AutoAfterShowScan
    \/ AutoSkipPass
    \/ AutoWatchlist
    \/ AutoPassEnd
    \/ AutoSearchThrows
    \/ AutoSearch
    \/ AutoSubmit

(***************************************************************************)
(* SpecAuto: one run of runAutoAddProcess or runAutoAddProcessSeparate.    *)
(***************************************************************************)
AutoHeld ==
    { << Held("t3", "downloading", <<"X",".","1","0","8","0","p">>),
         Held("t1", "downloaded", <<"X",".","7","2","0","p">>) >>,
      << Held("t4", "downloaded", Undef) >> }

AutoSource ==
    { <<>>, << Match("m1", <<"X",".","2","1","6","0","p">>, Q2160, "HDR10") >> }

AutoPreferences(auto) ==
    Preferences(Q2160, FALSE, TRUE, "undefined", FALSE, <<>>, auto, TRUE)

InitAuto ==
    /\ pc = "auto:start"
    /\ args \in [op : {"runAutoAddProcess", "runAutoAddProcessSeparate"},
                 held : AutoHeld,
                 source : {AutoSource},
                 settings : [checkForUpgrades : BOOLEAN, autoAddMovies : BOOLEAN,
                             autoAddShows : BOOLEAN],
                 moviePreferences : {AutoPreferences(TRUE), AutoPreferences(FALSE)},
                 showPreferences : {AutoPreferences(TRUE), AutoPreferences(FALSE)}]
    /\ (args.op = "runAutoAddProcess" => args.showPreferences = args.moviePreferences)
    /\ ret = [op |-> "none", value |-> <<>>]
    /\ calls = <<>>
    /\ IdleScan
    /\ IdleAuto
    /\ IdleFetch

NextAuto == ScanStep \/ AutoStep

SpecAuto == InitAuto /\ [][NextAuto]_vars

(***************************************************************************)
(* Claims.                                                                 *)
(***************************************************************************)
\* The declared tier table: Unknown=-1, Other=0, 480p=1, 720p=2, 1080p=3,
\* 2160p=4, 4K/UHD=5; a tier that is not set ranks as Unknown.
TierRank(q) ==
    CASE q \in {Undef, <<>>, QUnknown} -> -1
      [] q = Q480 -> 1
      [] q = Q720 -> 2
      [] q = Q1080 -> 3
      [] q = Q2160 -> 4
      [] q \in {Q4K, QUHD} -> 5
      [] OTHER -> 0

\* C1: for every triple (new, current, preferred), Unknown and unranked
\* values included, isBetterQuality returns true iff rank(new) > rank(current)
\* and (rank(current) < rank(preferred) or rank(new) <= rank(preferred)).
C1_IsBetterQualityIff ==
    pc = "done" =>
        (ret = TRUE <=>
            /\ TierRank(args.newQuality) > TierRank(args.currentQuality)
            /\ \/ TierRank(args.currentQuality) < TierRank(args.preferredQuality)
               \/ TierRank(args.newQuality) <= TierRank(args.preferredQuality))

C1_Witness ==
    /\ pc = "done"
    /\ args.newQuality = Q576
    /\ args.currentQuality = QUnknown
    /\ args.preferredQuality = Q1080
    /\ ret = TRUE

\* C2 (as stated): isBetterQuality('2160p','1080p','1080p') is true,
\* isBetterQuality('1080p','720p','1080p') is true and
\* isBetterQuality('2160p','1080p','720p') is false.
C2_Original ==
    pc = "done" =>
        /\ (args = [newQuality |-> Q2160, currentQuality |-> Q1080,
                    preferredQuality |-> Q1080] => ret = TRUE)
        /\ (args = [newQuality |-> Q1080, currentQuality |-> Q720,
                    preferredQuality |-> Q1080] => ret = TRUE)
        /\ (args = [newQuality |-> Q2160, currentQuality |-> Q1080,
                    preferredQuality |-> Q720] => ret = FALSE)

\* C2 (amended): isBetterQuality('2160p','1080p','1080p') is false; a held
\* item whose quality equals the preferred tier is never upgraded to a tier
\* above the preferred one, the overshoot needs a held quality strictly below
\* the preferred tier (isBetterQuality('2160p','720p','1080p') is true);
\* isBetterQuality('1080p','720p','1080p') is true and
\* isBetterQuality('2160p','1080p','720p') is false.
C2_Amended ==
    pc = "done" =>
        /\ (/\ TierRank(args.currentQuality) = TierRank(args.preferredQuality)
            /\ TierRank(args.newQuality) > TierRank(args.preferredQuality)
            => ret = FALSE)
        /\ (args = [newQuality |-> Q2160, currentQuality |-> Q720,
                    preferredQuality |-> Q1080] => ret = TRUE)
        /\ (args = [newQuality |-> Q1080, currentQuality |-> Q720,
                    preferredQuality |-> Q1080] => ret = TRUE)
        /\ (args = [newQuality |-> Q2160, currentQuality |-> Q1080,
                    preferredQuality |-> Q720] => ret = FALSE)

C2_Witness ==
    /\ pc = "done"
    /\ args = [newQuality |-> Q2160, currentQuality |-> Q1080,
               preferredQuality |-> Q1080]
    /\ ret = FALSE

\* The member the selection rule picks in a group: the first member (in
\* best-first order, ties in input order) of rank equal to the preferred
\* rank; failing that the first of rank <= preferred; failing that the
\* highest-ranked member when allowHigherQuality is set.  <<>> for none.
RuleBest(members, I) ==
    CHOOSE i \in I :
        \A j \in I :
            \/ TierRank(members[i].quality) > TierRank(members[j].quality)
            \/ /\ TierRank(members[i].quality) = TierRank(members[j].quality)
               /\ i <= j

RuleChoice(members, preferences) ==
    LET preferredRank == TierRank(preferences.quality)
        exact == {i \in 1..Len(members) :
                    TierRank(members[i].quality) = preferredRank}
        below == {i \in 1..Len(members) :
                    TierRank(members[i].quality) <= preferredRank}
    IN  IF exact # {} THEN <<members[RuleBest(members, exact)]>>
        ELSE IF below # {} THEN <<members[RuleBest(members, below)]>>
        ELSE IF preferences.allowHigherQuality /\ members # <<>>
        THEN <<members[RuleBest(members, 1..Len(members))]>>
        ELSE <<>>

RECURSIVE RuleSelection(_, _, _, _)
RuleSelection(groups, g, preferences, checked) ==
    IF g > Len(groups) THEN <<>>
    ELSE LET choice == RuleChoice(groups[g].members, preferences)
         IN  (IF /\ choice # <<>>
                 /\ (checked => matchesPreferences(choice[1], preferences))
              THEN choice ELSE <<>>)
             \o RuleSelection(groups, g + 1, preferences, checked)

Returned(op) == pc = "done" /\ ret.op = op

ShowInput ==
    LET Keep(m) == showFilter(m, args.preferences)
    IN  SelectSeq(args.allMatches, Keep)

\* C3: per group both selectors select at most one member: the first member
\* of rank equal to the preferred rank in best-first order; if none, the first
\* of rank <= preferred; if every member ranks above preferred, nothing unless
\* allowHigherQuality is set, and then the single highest-ranked member.
C3_SelectionPerGroup ==
    /\ Returned("findBestQualityMatch") =>
          ret.value = RuleSelection(groupByTitle(args.allMatches), 1,
                                    args.preferences, TRUE)
    /\ Returned("findBestQualityMatchForShow") =>
          ret.value = RuleSelection(groupShowsBySeasonStructure(ShowInput), 1,
                                    args.preferences, FALSE)

C3_Witness ==
    /\ Returned("findBestQualityMatch")
    /\ Len(args.allMatches) = 2
    /\ Len(groupByTitle(args.allMatches)) = 1
    /\ TierRank(args.allMatches[1].quality) > TierRank(args.preferences.quality)
    /\ TierRank(args.allMatches[2].quality) < TierRank(args.preferences.quality)
    /\ ret.value = <<args.allMatches[2]>>

InGroup(m, group) == \E k \in 1..Len(group.members) : group.members[k] = m

\* The group contributes no candidate when its rank-chosen member fails
\* matchesPreferences.
NoReplacement(groups) ==
    \A g \in 1..Len(groups) :
        LET choice == RuleChoice(groups[g].members, args.preferences)
        IN  (choice # <<>> /\ ~matchesPreferences(choice[1], args.preferences))
            => \A k \in 1..Len(ret.value) : ~InGroup(ret.value[k], groups[g])

AllReturnedMatchPreferences ==
    \A k \in 1..Len(ret.value) : matchesPreferences(ret.value[k], args.preferences)

\* C4 (as stated): in both selectors the member chosen by rank within a group
\* is returned only if it satisfies matchesPreferences, and when it does not
\* the group contributes no candidate at all.
C4_Original ==
    /\ Returned("findBestQualityMatch") =>
          /\ AllReturnedMatchPreferences
          /\ NoReplacement(groupByTitle(args.allMatches))
    /\ Returned("findBestQualityMatchForShow") =>
          /\ AllReturnedMatchPreferences
          /\ NoReplacement(groupShowsBySeasonStructure(args.allMatches))

\* C4 (amended): findBestQualityMatch returns the member chosen by rank within
\* a group only if it satisfies matchesPreferences, and when it does not the
\* group contributes no candidate.  findBestQualityMatchForShow applies
\* matchesPreferences before grouping: every candidate it returns satisfies
\* matchesPreferences, and each group contributes the member chosen by rank
\* among its members that satisfy matchesPreferences.
C4_Amended ==
    /\ Returned("findBestQualityMatch") =>
          /\ AllReturnedMatchPreferences
          /\ NoReplacement(groupByTitle(args.allMatches))
    /\ Returned("findBestQualityMatchForShow") =>
          /\ AllReturnedMatchPreferences
          /\ LET groups == groupShowsBySeasonStructure(args.allMatches)
                 Passes(m) == matchesPreferences(m, args.preferences)
             IN  \A g \in 1..Len(groups) :
                    LET choice == RuleChoice(SelectSeq(groups[g].members, Passes),
                                             args.preferences)
                        Mine(m) == InGroup(m, groups[g])
                    IN  SelectSeq(ret.value, Mine) = choice

C4_Witness ==
    /\ Returned("findBestQualityMatch")
    /\ LET groups == groupByTitle(args.allMatches)
       IN  /\ Len(groups) = 1
           /\ LET choice == RuleChoice(groups[1].members, args.preferences)
              IN  /\ choice # <<>>
                  /\ ~matchesPreferences(choice[1], args.preferences)
           /\ \E k \in 1..Len(groups[1].members) :
                 matchesPreferences(groups[1].members[k], args.preferences)
    /\ ret.value = <<>>

\* C9: with preferences.completeSeasons set, findBestQualityMatchForShow
\* returns no candidate whose title contains an S<NN>E<NN> token.
C9_NoEpisodeReturned ==
    (Returned("findBestQualityMatchForShow") /\ args.preferences.completeSeasons)
    => \A k \in 1..Len(ret.value) : ~Test(ret.value[k].title, EpisodeRe, TRUE)

EndsWith(s, suffix) ==
    /\ Len(s) >= Len(suffix)
    /\ SubSeq(s, Len(s) - Len(suffix) + 1, Len(s)) = suffix

PackSuffix == <<"_","P","a","c","k">>
IndividualSuffix == <<"_","I","n","d","i","v","i","d","u","a","l">>
CompleteSuffix == <<"_","C","o","m","p","l","e","t","e">>

\* key ends with _S<NN> followed by the suffix
SeasonSuffixed(key, suffix) ==
    /\ EndsWith(key, suffix)
    /\ LET n == Len(key) - Len(suffix)
       IN  /\ n >= 4
           /\ key[n - 3] = "_" /\ key[n - 2] = "S"
           /\ IsDigit(key[n - 1]) /\ IsDigit(key[n])

SuffixCount(key) ==
    Cardinality({x \in {"pack", "individual", "complete"} :
        \/ x = "pack" /\ SeasonSuffixed(key, PackSuffix)
        \/ x = "individual" /\ SeasonSuffixed(key, IndividualSuffix)
        \/ x = "complete" /\ EndsWith(key, CompleteSuffix)})

Places(groups, m) ==
    {p \in UNION {{<<g, k>> : k \in 1..Len(groups[g].members)} :
                  g \in 1..Len(groups)} :
        groups[p[1]].members[p[2]] = m}

\* C10: groupByTitle and groupShowsBySeasonStructure partition their input:
\* every input candidate is in exactly one group, once, nothing else is in a
\* group, candidates of equal title share a group, and every key of the
\* show-aware grouping carries exactly one of the suffixes _S<NN>_Pack,
\* _S<NN>_Individual and _Complete.
C10_GroupingPartitions ==
    (Returned("groupByTitle") \/ Returned("groupShowsBySeasonStructure")) =>
        LET groups == ret.value
            all == args.allMatches
        IN  /\ \A i \in 1..Len(all) : Cardinality(Places(groups, all[i])) = 1
            /\ \A g \in 1..Len(groups) :
                  /\ groups[g].members # <<>>
                  /\ \A k \in 1..Len(groups[g].members) :
                        \E i \in 1..Len(all) : all[i] = groups[g].members[k]
                  /\ \A h \in 1..Len(groups) :
                        groups[g].key = groups[h].key => g = h
            /\ \A i, j \in 1..Len(all) :
                  all[i].title = all[j].title =>
                      \E g \in 1..Len(groups) :
                          InGroup(all[i], groups[g]) /\ InGroup(all[j], groups[g])
            /\ Returned("groupShowsBySeasonStructure") =>
                  \A g \in 1..Len(groups) : SuffixCount(groups[g].key) = 1

C10_Witness ==
    /\ Returned("groupShowsBySeasonStructure")
    /\ Len(args.allMatches) = 2
    /\ Len(ret.value) = 2
    /\ SeasonSuffixed(ret.value[1].key, PackSuffix)
    /\ SeasonSuffixed(ret.value[2].key, IndividualSuffix)

\* C6: findBetterQualityMatches returns exactly the best-first prefix of the
\* candidates that satisfy isBetterQuality and matchesPreferences, of length
\* at most preferences.maxUpgradeMatches for any configured value (0
\* included), 3 being used only when the field is not supplied.
C6_BestFirstPrefix ==
    Returned("findBetterQualityMatches") =>
        LET limit == IF args.preferences.maxUpgradeMatches = <<>> THEN 3
                     ELSE args.preferences.maxUpgradeMatches[1]
            Qualifies(m) ==
                /\ isBetterQuality(m.quality, args.currentQuality,
                                   args.preferences.quality)
                /\ matchesPreferences(m, args.preferences)
            qualifying == SelectSeq(args.allMatches, Qualifies)
            out == ret.value
        IN  /\ Len(out) <= limit
            /\ Len(out) = IF Len(qualifying) < limit THEN Len(qualifying) ELSE limit
            /\ \A k \in 1..Len(out) :
                  \E i \in 1..Len(qualifying) : qualifying[i] = out[k]
            /\ \A k \in 1..(Len(out) - 1) :
                  TierRank(out[k].quality) >= TierRank(out[k + 1].quality)
            /\ \A i \in 1..Len(qualifying) :
                  (\A k \in 1..Len(out) : out[k] # qualifying[i]) =>
                      \A k \in 1..Len(out) :
                          TierRank(out[k].quality) >= TierRank(qualifying[i].quality)

CallsOf(op) == {k \in 1..Len(calls) : calls[k].op = op}

FailedCalls(ops) == {k \in 1..Len(calls) : calls[k].op \in ops /\ ~calls[k].ok}

\* The held items of the snapshot a scan has to check.
ToCheck(contentType) ==
    {i \in 1..Len(args.held) :
        /\ args.held[i].status = "downloaded"
        /\ ~Throws(args.held[i].filename)
        /\ \/ contentType = "null"
           \/ detectContentType(args.held[i].filename) = contentType}

Searched(i) ==
    \E k \in CallsOf("findAllMatchingContent") : calls[k].for = args.held[i].id

ListRetrieved ==
    \E k \in CallsOf("getRealDebridTorrents") : calls[k].ok

\* C5: in checkForQualityUpgrades a failure while processing one held item
\* (the candidate search or the metadata extraction throwing, a submission
\* failing) is recorded in results.errors and every later held item of the
\* snapshot is still checked.
C5_FailureDoesNotEndScan ==
    (Returned("checkForQualityUpgrades") /\ ListRetrieved) =>
        /\ Len(ret.value.errors) >=
              Cardinality(FailedCalls({"findAllMatchingContent",
                                       "addMagnetToRealDebrid"}))
        /\ \A i \in ToCheck(args.contentType) : Searched(i)

\* C8: with autoUpgrade and deleteOldAfterUpgrade set, a removal request for
\* a held item is issued only after an upgrade for that item was submitted
\* successfully, once per superseded held item, and a failed removal adds
\* nothing to results.errors and does not stop the scan.
C8_RemovalOncePerHeldItem ==
    (/\ args.op = "checkForQualityUpgrades"
     /\ args.preferences.autoUpgrade
     /\ args.preferences.deleteOldAfterUpgrade) =>
        /\ \A k \in CallsOf("deleteRealDebridTorrent") :
              \E j \in 1..(k - 1) :
                  /\ calls[j].op = "addMagnetToRealDebrid"
                  /\ calls[j].for = calls[k].target
                  /\ calls[j].ok
        /\ \A k, j \in CallsOf("deleteRealDebridTorrent") :
              calls[k].target = calls[j].target => k = j
        /\ (/\ Returned("checkForQualityUpgrades")
            /\ FailedCalls({"getRealDebridTorrents", "findAllMatchingContent",
                            "addMagnetToRealDebrid"}) = {}
            /\ \A i \in 1..Len(args.held) : ~Throws(args.held[i].filename))
           => /\ ret.value.errors = <<>>
              /\ \A i \in ToCheck(args.contentType) : Searched(i)

AutoReturned ==
    pc = "done" /\ ret.op \in {"runAutoAddProcess", "runAutoAddProcessSeparate"}

\* C7: in runAutoAddProcess and runAutoAddProcessSeparate every failed
\* collaborator call (watchlist retrieval, candidate search, submission,
\* held-list retrieval) adds a string to results.errors, and the remaining
\* work of the run (remaining watchlist items, the show pass after the movie
\* pass) is still carried out; the operation returns its results object.
C7_FailuresRecordedRunContinues ==
    AutoReturned =>
        /\ ret.value = results
        /\ Len(results.errors) >=
              Cardinality(FailedCalls({"getTraktWatchlist", "findAllMatchingContent",
                                       "addMagnetToRealDebrid",
                                       "getRealDebridTorrents"}))
        /\ args.settings.autoAddMovies =>
              \E k \in CallsOf("getTraktWatchlist") : calls[k].target = "movies"
        /\ args.settings.autoAddShows =>
              \E k \in CallsOf("getTraktWatchlist") : calls[k].target = "shows"
        /\ results.moviesProcessed =
              Cardinality({k \in CallsOf("findAllMatchingContent") :
                              calls[k].for = "movies"})
        /\ results.showsProcessed =
              Cardinality({k \in CallsOf("findAllMatchingContent") :
                              calls[k].for = "shows"})

\* C11: in the report of checkForQualityUpgrades, checkedTorrents equals the
\* number of held items that were actually checked; an item whose status is
\* not 'downloaded' produces no candidate search, no submission and no
\* removal, and is not counted as checked.
C11_CheckedCountsChecked ==
    /\ args.op = "checkForQualityUpgrades" =>
          \A i \in 1..Len(args.held) :
              args.held[i].status # "downloaded" =>
                  \A k \in 1..Len(calls) : calls[k].for # args.held[i].id
    /\ (/\ Returned("checkForQualityUpgrades")
        /\ ret.value.errors = <<>>) =>
          ret.value.checkedTorrents =
              Cardinality({i \in 1..Len(args.held) : Searched(i)})

QualityReturned == pc = "done" /\ ret \in BOOLEAN

\* C12 (as stated): for every preferred tier, unset and Unknown included, and
\* every new tier of rank >= 0, isBetterQuality(new, 'Unknown', preferred) is
\* true; and isBetterQuality('Unknown', current, preferred) is false for every
\* current and preferred tier.
C12_Original ==
    QualityReturned =>
        /\ (args.currentQuality = QUnknown /\ TierRank(args.newQuality) >= 0)
              => ret = TRUE
        /\ args.newQuality = QUnknown => ret = FALSE

\* C12 (amended): isBetterQuality(new, 'Unknown', preferred) is true for every
\* new tier of rank >= 0 when the preferred tier has rank >= 0, and false when
\* the preferred tier is unset or Unknown; isBetterQuality('Unknown', current,
\* preferred) is false for every current and preferred tier.
C12_Amended ==
    QualityReturned =>
        /\ (args.currentQuality = QUnknown /\ TierRank(args.newQuality) >= 0)
              => ret = (TierRank(args.preferredQuality) >= 0)
        /\ args.newQuality = QUnknown => ret = FALSE

C12_Witness ==
    /\ QualityReturned
    /\ args.currentQuality = QUnknown
    /\ args.newQuality = Q576
    /\ args.preferredQuality = Q1080
    /\ ret = TRUE

ClausePassed(name) ==
    \E k \in 1..Len(calls) : calls[k].target = name /\ calls[k].ok

ClauseRejected(name) ==
    \E k \in 1..Len(calls) : calls[k].target = name /\ ~calls[k].ok

ClauseReached(name) == ClausePassed(name) \/ ClauseRejected(name)

\* The quality clause as stated: a known quality against a set preferred
\* quality is rejected when strictly above without allowHigherQuality or
\* strictly below without allowLowerQuality.
QualityRuleRejects ==
    LET m == TierRank(args.metadata.quality)
        p == TierRank(args.preferences.quality)
    IN  /\ args.metadata.quality # QUnknown
        /\ args.preferences.quality # Undef
        /\ \/ m > p /\ ~args.preferences.allowHigherQuality
           \/ m < p /\ ~args.preferences.allowLowerQuality

\* C13: in matchesPreferences, with a known metadata quality and a preferred
\* quality set, the quality clause never rejects a quality of the preferred
\* rank, rejects a quality strictly above exactly when allowHigherQuality is
\* not set and one strictly below exactly when allowLowerQuality is not set;
\* with an Unknown metadata quality or no preferred quality it rejects nothing.
C13_QualityClause ==
    Returned("matchesPreferences") =>
        /\ ClauseReached("quality") =>
              (ClauseRejected("quality") <=> QualityRuleRejects)
        /\ (ClauseReached("quality") /\ QualityRuleRejects) => ret.value = FALSE
        /\ (/\ args.preferences.hdrPreference \in {"undefined", "any"}
            /\ args.preferences.fileTypes = <<>>
            /\ args.preferences.maxSize = SizeUndef)
           => ret.value = ~QualityRuleRejects

C13_Witness ==
    /\ Returned("matchesPreferences")
    /\ args.metadata.quality = Q720
    /\ args.preferences.quality = Q1080
    /\ args.preferences.allowLowerQuality
    /\ ~args.preferences.allowHigherQuality
    /\ ClausePassed("quality")
    /\ ret.value = TRUE

\* The HDR policy as stated: 'sdr-only' rejects non-SDR metadata, 'hdr-only'
\* rejects SDR metadata, every other setting rejects nothing.
HdrRuleRejects ==
    \/ args.preferences.hdrPreference = "sdr-only" /\ args.metadata.hdr # "SDR"
    \/ args.preferences.hdrPreference = "hdr-only" /\ args.metadata.hdr = "SDR"

\* C14: matchesPreferences evaluates the HDR policy first and short-circuits:
\* 'sdr-only' rejects every non-SDR metadata, 'hdr-only' every SDR metadata,
\* 'hdr-preferred', 'any' and no hdrPreference reject nothing at this stage; a
\* candidate rejected by the HDR clause is rejected whatever the quality,
\* release-type and size clauses would decide, and they are not evaluated.
C14_HdrClauseFirst ==
    Returned("matchesPreferences") =>
        /\ calls # <<>> /\ calls[1].target = "hdrPreference"
        /\ ClauseRejected("hdrPreference") <=> HdrRuleRejects
        /\ HdrRuleRejects =>
              /\ ret.value = FALSE
              /\ Len(calls) = 1
        /\ (/\ args.preferences.quality = Undef
            /\ args.preferences.fileTypes = <<>>
            /\ args.preferences.maxSize = SizeUndef)
           => ret.value = ~HdrRuleRejects

C14_Witness ==
    /\ Returned("matchesPreferences")
    /\ args.preferences.hdrPreference = "sdr-only"
    /\ args.metadata.hdr = "HDR10"
    /\ args.preferences.maxSize = Size(1, "GB")
    /\ args.metadata.size = Size(2, "gb")
    /\ ret.value = FALSE
    /\ ~ClauseReached("maxSize")
    /\ ~ClauseReached("quality")

\* A size in MB, with 1 GB = 1024 MB.
SizeInMB(size) ==
    IF size.unit \in {"GB", "gb"} THEN 1024 * size.num ELSE size.num

SizeRuleRejects ==
    /\ args.preferences.maxSize # SizeUndef
    /\ args.metadata.size # SizeUnknown
    /\ SizeInMB(args.metadata.size) > SizeInMB(args.preferences.maxSize)

\* C15: the size-cap clause of matchesOtherPreferences rejects a candidate
\* exactly when maxSize is set, the metadata size is known and the size in GB
\* (1 GB = 1024 MB) strictly exceeds the cap in GB; '1024 MB' and '1 GB' are
\* treated identically against any cap, and an Unknown size is never rejected.
C15_SizeCapClause ==
    Returned("matchesPreferences") =>
        /\ ClauseReached("maxSize") =>
              (ClauseRejected("maxSize") <=> SizeRuleRejects)
        /\ (ClauseReached("maxSize") /\ SizeRuleRejects) => ret.value = FALSE
        /\ (/\ args.preferences.hdrPreference \in {"undefined", "any"}
            /\ args.preferences.quality = Undef
            /\ args.preferences.fileTypes = <<>>)
           => ret.value = ~SizeRuleRejects
        /\ args.metadata.size = SizeUnknown => ~ClauseRejected("maxSize")
        /\ matchesPreferences([args.metadata EXCEPT !.size = Size(1024, "MB")],
                              args.preferences)
           = matchesPreferences([args.metadata EXCEPT !.size = Size(1, "GB")],
                                args.preferences)

C15_Witness ==
    /\ Returned("matchesPreferences")
    /\ args.metadata.size = Size(1025, "MB")
    /\ args.preferences.maxSize = Size(1, "GB")
    /\ ClauseRejected("maxSize")
    /\ ret.value = FALSE

ResolutionTokenRe == << <<"\\d","\\d","\\d","\\d","p">>, <<"\\d","\\d","\\d","p">> >>

\* Two candidates of one title that differ only in their resolution token.
DifferOnlyInResolution(a, b) ==
    /\ a.title # b.title
    /\ ReplaceAll(a.title, ResolutionTokenRe, TRUE)
       = ReplaceAll(b.title, ResolutionTokenRe, TRUE)

\* C16: title cleaning removes every 3- or 4-digit resolution token, so
\* candidates of one title that differ only in that token ('X.720p' and
\* 'X.1080p') get one group key in groupByTitle and compete in one group;
\* under quality=1080p with allowHigherQuality=false the 1080p candidate is
\* the one selected from that group.
C16_ResolutionsShareGroup ==
    (/\ Returned("findBestQualityMatch")
     /\ Len(args.allMatches) = 2
     /\ DifferOnlyInResolution(args.allMatches[1], args.allMatches[2])
     /\ args.preferences.quality = Q1080
     /\ ~args.preferences.allowHigherQuality
     /\ args.preferences.hdrPreference = "undefined") =>
        /\ Len(groupByTitle(args.allMatches)) = 1
        /\ Len(ret.value) = 1
        /\ ret.value[1].quality = Q1080

\* C17: cleanTitle is idempotent: cleanTitle(cleanTitle(title)) equals
\* cleanTitle(title) for every title, also when removing one kind of token
\* joins the surrounding text into a new removable token.
C17_CleanTitleIdempotent ==
    Returned("cleanTitle") => cleanTitle(ret.value) = ret.value

BestFirst(matches) ==
    \A k \in 1..(Len(matches) - 1) :
        TierRank(matches[k].quality) >= TierRank(matches[k + 1].quality)

SameMembers(a, b) ==
    /\ Len(a) = Len(b)
    /\ \A k \in 1..Len(a) :
          Cardinality({i \in 1..Len(a) : a[i] = a[k]})
          = Cardinality({i \in 1..Len(b) : b[i] = a[k]})

\* Every group's sortedMatches holds the group's members, best first.
GroupsSortedBestFirst(groups) ==
    \A g \in 1..Len(groups) :
        /\ BestFirst(sortByRank(groups[g].members))
        /\ SameMembers(sortByRank(groups[g].members), groups[g].members)

\* With no preferred quality and allowHigherQuality, a group whose members
\* all rank above Unknown contributes sortedMatches[0], a member of the
\* highest rank in the group.
TopOfGroupReturned(groups) ==
    \A g \in 1..Len(groups) :
        (/\ args.preferences.quality = Undef
         /\ \A k \in 1..Len(groups[g].members) :
               TierRank(groups[g].members[k].quality) > -1)
        => \E r \in 1..Len(ret.value) :
              /\ InGroup(ret.value[r], groups[g])
              /\ \A k \in 1..Len(groups[g].members) :
                    TierRank(ret.value[r].quality)
                    >= TierRank(groups[g].members[k].quality)

\* C18: getQualityRank is a lookup consistent with the tier table
\* (Unknown=-1, Other=0, 480p=1, 720p=2, 1080p=3, 2160p=4, 4K/UHD=5), with
\* rank(4K/UHD) > rank(2160p) > rank(1080p) > rank(720p) > rank(480p) >
\* rank(Other) > rank(Unknown), and every sort in the selectors and in the
\* upgrade search orders candidates by this rank, best first.
C18_RankTableAndSorts ==
    /\ Returned("getQualityRank") =>
          /\ ret.value = TierRank(args.currentQuality)
          /\ ret.value = getQualityRank(args.currentQuality)
    /\ getQualityRank(Q4K) = getQualityRank(QUHD)
    /\ getQualityRank(QUHD) > getQualityRank(Q2160)
    /\ getQualityRank(Q2160) > getQualityRank(Q1080)
    /\ getQualityRank(Q1080) > getQualityRank(Q720)
    /\ getQualityRank(Q720) > getQualityRank(Q480)
    /\ getQualityRank(Q480) > getQualityRank(Q576)
    /\ getQualityRank(Q576) > getQualityRank(QUnknown)
    /\ Returned("findBestQualityMatch") =>
          /\ GroupsSortedBestFirst(groupByTitle(args.allMatches))
          /\ TopOfGroupReturned(groupByTitle(args.allMatches))
    /\ Returned("findBestQualityMatchForShow") =>
          /\ GroupsSortedBestFirst(groupShowsBySeasonStructure(args.allMatches))
          /\ TopOfGroupReturned(groupShowsBySeasonStructure(args.allMatches))
    /\ Returned("findBetterQualityMatches") => BestFirst(ret.value)

C18_Witness ==
    /\ Returned("findBetterQualityMatches")
    /\ Len(args.allMatches) = 2
    /\ TierRank(args.allMatches[1].quality) < TierRank(args.allMatches[2].quality)
    /\ ret.value = <<args.allMatches[2], args.allMatches[1]>>

WatchPhases == {"movies", "shows"}

\* The targets of the candidate searches made for one pass, in call order.
SearchesFor(p) ==
    LET Mine(c) == c.op = "findAllMatchingContent" /\ c.for = p
        mine == SelectSeq(calls, Mine)
    IN  [k \in 1..Len(mine) |-> mine[k].target]

\* The magnets submitted since the last candidate search, in call order.
SubmittedSinceSearch ==
    LET searches == CallsOf("findAllMatchingContent")
        last == IF searches = {} THEN 0
                ELSE CHOOSE k \in searches : \A j \in searches : j <= k
        tail == SubSeq(calls, last + 1, Len(calls))
    IN  [k \in 1..Len(tail) |-> tail[k].target]

\* C19: within one runAutoAddProcess / runAutoAddProcessSeparate run the
\* collaborator calls are made one at a time in a fixed order: the calls of
\* the upgrade scans come before the first watchlist retrieval, all movie
\* items are processed before the show watchlist is retrieved, and items are
\* searched and their matches submitted in watchlist order.
C19_CallsInFixedOrder ==
    args.op \in {"runAutoAddProcess", "runAutoAddProcessSeparate"} =>
        /\ \A k, j \in 1..Len(calls) :
              k < j =>
                 /\ ~(calls[k].for \in WatchPhases /\ calls[j].for \notin WatchPhases)
                 /\ ~(calls[k].for = "shows" /\ calls[j].for = "movies")
        /\ \A k \in 1..Len(calls) :
              (calls[k].for \in WatchPhases /\ calls[k].op # "getTraktWatchlist") =>
                  \E j \in 1..(k - 1) :
                      /\ calls[j] = Call("getTraktWatchlist", calls[k].for,
                                         calls[k].for, TRUE)
        /\ pc \in {"auto:item", "auto:submit"} =>
              /\ SearchesFor(phase) = SubSeq(watch, 1, Len(SearchesFor(phase)))
              /\ Len(SearchesFor(phase)) = IF pc = "auto:submit" THEN wi ELSE wi - 1
        /\ pc = "auto:submit" =>
              SubmittedSinceSearch = [k \in 1..(bi - 1) |-> best[k].magnet]

C19_Witness ==
    /\ AutoReturned
    /\ Len(SearchesFor("movies")) = 2
    /\ SearchesFor("movies")[1] # SearchesFor("movies")[2]
    /\ \E k \in 1..Len(calls) :
          calls[k].op = "findAllMatchingContent" /\ calls[k].for \notin WatchPhases
    /\ \E k \in 1..Len(calls) :
          calls[k].op = "addMagnetToRealDebrid" /\ calls[k].for = "movies"
    /\ \E k \in 1..Len(calls) :
          calls[k].op = "addMagnetToRealDebrid" /\ calls[k].for = "shows"

\* Index of a proxy in the list, from 0.
ProxyIndex(proxy) == (CHOOSE i \in 1..Len(corsProxies) : corsProxies[i] = proxy) - 1

\* The attempts made for one call, in order.
AttemptsOf(c) ==
    LET Mine(a) == a.op = "fetch" /\ a.for = c
    IN  SelectSeq(calls, Mine)

\* C20: when every attempt of a fetchWithFallback call fails and no other
\* call interleaves, the call makes exactly maxRetries attempts, each through
\* the next proxy in cyclic order after the previous one, then throws 'All
\* CORS proxies failed', and on exit currentProxyIndex and corsProxy equal
\* their values at the start of the call; in every state corsProxy equals
\* corsProxies[currentProxyIndex] and 0 <= currentProxyIndex < the number of
\* proxies.
C20_AllAttemptsFail ==
    pc = "fetchWithFallback" =>
        /\ currentProxyIndex \in 0..(Len(corsProxies) - 1)
        /\ corsProxy = corsProxies[currentProxyIndex + 1]
        /\ LET attempts == AttemptsOf("a")
           IN  /\ \A k \in 1..Len(attempts) :
                     ProxyIndex(attempts[k].target)
                     = (args.currentProxyIndex + k - 1) % Len(corsProxies)
               /\ (fetch["a"].pc \in {"thrown", "returned"}
                   /\ \A k \in 1..Len(attempts) : ~attempts[k].ok)
                  => /\ Len(attempts) = args.maxRetries
                     /\ fetch["a"].pc = "thrown"
                     /\ fetch["a"].result = "All CORS proxies failed"
                     /\ currentProxyIndex = args.currentProxyIndex
                     /\ corsProxy = corsProxies[args.currentProxyIndex + 1]

C20_Witness ==
    /\ pc = "fetchWithFallback"
    /\ args.maxRetries = 3
    /\ args.currentProxyIndex = Len(corsProxies) - 1
    /\ fetch["a"].pc = "thrown"
    /\ Len(AttemptsOf("a")) = 3
    /\ AttemptsOf("a")[3].target = corsProxies[2]
    /\ currentProxyIndex = args.currentProxyIndex

\* C21: when two fetchWithFallback calls on the same APIManager overlap, each
\* call's retry goes through a different proxy than the one that just failed
\* for that call.
C21_RetryChangesProxy ==
    pc = "fetchWithFallback twice" =>
        \A c \in DOMAIN fetch :
            LET attempts == AttemptsOf(c)
            IN  \A k \in 1..(Len(attempts) - 1) :
                    ~attempts[k].ok => attempts[k + 1].target # attempts[k].target

\* The entries of a report's errors with the given message (the model keeps
\* of each message the text before the item's title).
ErrorsOf(r, text) == {k \in 1..Len(r.errors) : r.errors[k] = text}

SubmissionsAnswered(ok) ==
    {k \in CallsOf("addMagnetToRealDebrid") : calls[k].ok = ok}

\* C22: at every point of an upgrade scan upgradesAdded <= upgradesFound,
\* each submission attempt increments exactly one of upgradesAdded or the
\* 'Failed to upgrade' entries of errors, and when preferences.autoUpgrade is
\* not set no submission and no removal is issued (upgradesAdded stays 0)
\* even though upgradesFound is still counted.
C22_CountersConsistent ==
    args.op = "checkForQualityUpgrades" =>
        /\ scan.upgradesAdded <= scan.upgradesFound
        /\ scan.upgradesAdded = Cardinality(SubmissionsAnswered(TRUE))
        /\ Cardinality(ErrorsOf(scan, "Failed to upgrade"))
           = Cardinality(SubmissionsAnswered(FALSE))
        /\ Len(better) <= scan.upgradesFound
        /\ ~args.preferences.autoUpgrade =>
              /\ CallsOf("addMagnetToRealDebrid") = {}
              /\ CallsOf("deleteRealDebridTorrent") = {}
              /\ scan.upgradesAdded = 0
        /\ Returned("checkForQualityUpgrades") => ret.value = scan

C22_Witness ==
    /\ Returned("checkForQualityUpgrades")
    /\ args.preferences.autoUpgrade
    /\ ret.value.upgradesFound = 2
    /\ ret.value.upgradesAdded = 1
    /\ ret.value.errors = <<"Failed to upgrade">>
    /\ Cardinality(CallsOf("addMagnetToRealDebrid")) = 2

\* The tags of a release type in a display name.
ReleaseTagRe(type) ==
    CASE type = "bluray" -> << <<"b","l","u","r","a","y">> >>
      [] type = "web" -> << <<"w","e","b","-","d","l">>, <<"w","e","b","r","i","p">> >>
      [] type = "remux" -> << <<"r","e","m","u","x">> >>
      [] OTHER -> <<>>

CarriesRequestedTag(line, preferences) ==
    \E k \in 1..Len(preferences.fileTypes) :
        Test(displayName(line), ReleaseTagRe(preferences.fileTypes[k]), TRUE)

\* The trimmed lines of the hash list given, in input order.
LinesGiven ==
    LET lines == Split(args.hashListContent, "\n")
    IN  [i \in 1..Len(lines) |-> Trim(lines[i])]

MagnetsReturned == [i \in 1..Len(ret.value) |-> ret.value[i].magnet]

\* C23: processHashListForMatching with a non-empty fileTypes whitelist
\* keeps, in input order, every magnet line whose display name carries a tag
\* of a requested release type ('BluRay' for bluray, 'WEB-DL' or 'WEBRip' for
\* web, 'remux' for remux) and that passes the other clauses, and drops only
\* lines that are not magnet links or fail a clause.
C23_WhitelistKeepsTaggedLines ==
    (/\ Returned("processHashListForMatching")
     /\ Len(args.preferences.fileTypes) > 0) =>
        LET others == [args.preferences EXCEPT !.fileTypes = <<>>]
            Kept(line) == \E i \in 1..Len(ret.value) : ret.value[i].magnet = line
        IN  /\ \A i \in 1..Len(LinesGiven) :
                  (/\ isMagnetLink(LinesGiven[i])
                   /\ CarriesRequestedTag(LinesGiven[i], args.preferences)
                   /\ matchesPreferences(extractMetadataFromMagnet(LinesGiven[i]),
                                         others))
                  => Kept(LinesGiven[i])
            /\ MagnetsReturned = SelectSeq(LinesGiven, Kept)
            /\ \A i \in 1..Len(LinesGiven) :
                  ~Kept(LinesGiven[i]) =>
                      \/ ~isMagnetLink(LinesGiven[i])
                      \/ ~matchesPreferences(
                              extractMetadataFromMagnet(LinesGiven[i]),
                              args.preferences)

====
